---- MODULE Spec2Model ----
(***************************************************************************)
(* The communication bus of src/src/core/communication_bus.py: the bounded *)
(* priority heap (MessageQueue), the subscriber registry, the processing   *)
(* loop with its per-recipient delivery tasks, the expiry sweep, the       *)
(* retry of failed deliveries, the bounded history and the statistics.     *)
(* The bus runs on one asyncio event loop, so                              *)
(* code between two awaits is one atomic action; the awaits (the gather of *)
(* the delivery tasks, each awaited callback) are where actions interleave.*)
(* A send suspends only while it notifies the connected notification       *)
(* clients; start() and stop() create and cancel the two loop tasks. The   *)
(* Agent of src/src/core/models.py is modelled beside the bus.             *)
(***************************************************************************)
EXTENDS Integers, Sequences, FiniteSets, TLC

\* ---------------------------------------------------------------- bounds
\* capacity of the queue (settings.message_queue_size)
MaxSize == 3
\* messages created (producer sends and welcome messages)
MaxMsgs == 3
\* puts accepted by the queue (MessageQueue._counter)
MaxCounter == 4
\* messages created in the queue's specification
MaxQueueMsgs == 4
\* messages created and puts accepted in the specification with a clock
MaxTtlMsgs == 3
MaxTtlCounter == 5
\* the clock stops here
MaxTime == 2
\* messages put on the queue directly
MaxPutMsgs == 4
\* filters registered
MaxFilters == 1
\* filters registered and messages created where the filters' order matters
MaxOrderedFilters == 2
MaxFilterMsgs == 3
\* messages created where the history is read
MaxHistMsgs == 3
\* messages created where the statistics are read
MaxStatMsgs == 10
\* capacity of the history (the deque's maxlen)
MaxHistory == 2
\* messages created where the router is watched
MaxRouteMsgs == 4
\* calls of start() that create tasks, and messages created, where the bus
\* is started and stopped
MaxStarts == 2
MaxLifeMsgs == 3
\* messages created where notification clients connect
MaxNotifyMsgs == 3
\* messages created where rejected sends are watched
MaxRejectMsgs == 5
\* messages created where the delivery counters are watched
MaxCountMsgs == 4
\* messages created where the retention of the backlogs is watched
MaxRetainMsgs == 4
\* messages created where the draining of the queue is watched
MaxDrainMsgs == 3
\* messages created, and the largest insertion counter, where a retry meets
\* a full queue or a filter
MaxRetryMsgs == 4
MaxRetryCounter == 5
\* messages created where a filter raises
MaxRaiseMsgs == 3
\* the largest max_concurrent_tasks an Agent is constructed with
MaxLimit == 2
\* failed deliveries are kept for one hour
RetentionSeconds == 3600
\* Agent.max_concurrent_tasks when the constructor is given none
DefaultMaxTasks == 3

\* ------------------------------------------------------------- vocabulary
Agents == {"a", "b"}
Senders == {"a", "system"}
Recipients == Agents \cup {"broadcast"}
Priorities == {1, 3}
\* ttl: <<>> is None, <<t>> is t seconds
Ttls == {<<>>, <<1>>}
FilterKinds == {"drop_low"}
OrderedKinds == {"drop_low", "drop_agent"}
RaisingKinds == {"raises", "drop_low"}
GroupRecipients == {"group:team"}
\* a callback is a coroutine function or it is not
Callbacks == {"async", "sync"}
\* the arguments of get_message_history; "None" and <<>> stand for an
\* argument left out
HistoryAgents == {"None", "a", "system"}
HistoryTypes == {"None", "task"}
HistoryLimits == {0, 1, 2}
HistorySince == {<<>>, <<0>>}
\* the notification clients that may connect
Clients == {"w1", "w2"}
\* the task ids handed to an Agent, and the statuses set on it from outside
TaskIds == {"t1", "t2"}
SetStatuses == {"idle", "error"}
NoMsg == [id |-> 0]
\* a dict with no key
EmptyMap == [a \in {} |-> <<>>]

VARIABLES
  queue,        \* MessageQueue._queue: the heap array of <<-priority, counter, message>>
  counter,      \* MessageQueue._counter
  size,         \* MessageQueue._size
  subscribers,  \* keys of CommunicationBus.subscribers
  failed,       \* CommunicationBus.failed_deliveries: address -> backlog, on its keys
  metrics,      \* CommunicationBus.metrics (the four message counters)
  filters,      \* CommunicationBus.message_filters
  now,          \* datetime.now(), in seconds
  cur,          \* the message _route_message is delivering, or NoMsg
  tasks,        \* the delivery tasks of cur: recipient -> state
  calls,        \* callback invocations for cur, per address
  produced,     \* messages created so far
  last,         \* the last operation and what it returned
  history,      \* CommunicationBus.message_history
  running,      \* CommunicationBus.running
  processing,   \* the tasks start() created for _process_messages, oldest first
  cleanup,      \* the tasks start() created for _cleanup_expired, oldest first
  websocket_clients,  \* CommunicationBus.websocket_clients
  notifying,    \* the calls suspended in _notify_websocket_clients
  agent         \* an Agent: status, current_tasks, max_concurrent_tasks

vars == <<queue, counter, size, subscribers, failed, metrics, filters, now,
          cur, tasks, calls, produced, last, history, running, processing,
          cleanup, websocket_clients, notifying, agent>>

\* what the operations of the queue and of the registry never write
lifecycle == <<running, processing, cleanup>>

\* ------------------------------------------------------------ Message
\* Message.is_expired at clock t
is_expired(m, t) ==
  IF m.ttl = <<>> \/ m.ttl[1] = 0 THEN FALSE
  ELSE (t - m.ts) > m.ttl[1]

\* ------------------------------------------------------------ Agent
\* Agent(max_concurrent_tasks=n): the fields the task methods read and write
NewAgent(n) == [status |-> "idle", current_tasks |-> <<>>, max_concurrent_tasks |-> n]

\* Agent.update_status
update_status(ag, status) == [ag EXCEPT !.status = status]

\* Agent.add_task: the agent after, and what add_task returns
add_task(ag, task_id) ==
  IF Len(ag.current_tasks) >= ag.max_concurrent_tasks
  THEN [agent |-> ag, ret |-> FALSE]
  ELSE LET appended == [ag EXCEPT !.current_tasks = Append(@, task_id)]
       IN [agent |-> update_status(appended,
                                   IF appended.current_tasks # <<>> THEN "busy" ELSE "idle"),
           ret |-> TRUE]

\* list.remove(x): the first occurrence goes
RECURSIVE ListRemove(_, _)
ListRemove(l, x) ==
  IF l = <<>> THEN l
  ELSE IF Head(l) = x THEN Tail(l)
  ELSE <<Head(l)>> \o ListRemove(Tail(l), x)

\* task_id in current_tasks
Holds(ag, task_id) == \E i \in 1..Len(ag.current_tasks) : ag.current_tasks[i] = task_id

\* mutant: remove_task leaves the status as it is
remove_task_stale(ag, task_id) ==
  IF Holds(ag, task_id)
  THEN [ag EXCEPT !.current_tasks = ListRemove(@, task_id)]
  ELSE ag

\* Agent.remove_task
remove_task(ag, task_id) ==
  IF Holds(ag, task_id)
  THEN LET removed == [ag EXCEPT !.current_tasks = ListRemove(@, task_id)]
       IN update_status(removed, IF removed.current_tasks # <<>> THEN "busy" ELSE "idle")
  ELSE ag

\* ------------------------------------------------------------ heapq
\* tuple comparison of two heap entries; the counter is unique, so the
\* message itself is never compared
Lt(x, y) == x[1] < y[1] \/ (x[1] = y[1] /\ x[2] < y[2])

RECURSIVE SiftDownLoop(_, _, _, _)
SiftDownLoop(h, startpos, pos, newitem) ==
  IF pos > startpos
  THEN LET parentpos == (pos - 1) \div 2
           parent == h[parentpos + 1]
       IN IF Lt(newitem, parent)
          THEN SiftDownLoop([h EXCEPT ![pos + 1] = parent], startpos, parentpos, newitem)
          ELSE [h EXCEPT ![pos + 1] = newitem]
  ELSE [h EXCEPT ![pos + 1] = newitem]

siftdown(h, startpos, pos) == SiftDownLoop(h, startpos, pos, h[pos + 1])

RECURSIVE SiftUpLoop(_, _, _, _, _)
SiftUpLoop(h, endpos, startpos, pos, newitem) ==
  LET childpos == 2 * pos + 1
      rightpos == childpos + 1
      c == IF rightpos < endpos /\ ~Lt(h[childpos + 1], h[rightpos + 1])
           THEN rightpos ELSE childpos
  IN IF childpos < endpos
     THEN SiftUpLoop([h EXCEPT ![pos + 1] = h[c + 1]], endpos, startpos, c, newitem)
     ELSE siftdown([h EXCEPT ![pos + 1] = newitem], startpos, pos)

siftup(h, pos) == SiftUpLoop(h, Len(h), pos, pos, h[pos + 1])

heappush(h, item) == siftdown(Append(h, item), 0, Len(h))

\* heappop: the popped entry and the heap left
heappop(h) ==
  LET lastelt == h[Len(h)]
      rest == SubSeq(h, 1, Len(h) - 1)
  IN IF rest # <<>>
     THEN [item |-> rest[1], heap |-> siftup([rest EXCEPT ![1] = lastelt], 0)]
     ELSE [item |-> lastelt, heap |-> <<>>]

RECURSIVE HeapifyFrom(_, _)
HeapifyFrom(x, i) == IF i < 0 THEN x ELSE HeapifyFrom(siftup(x, i), i - 1)

heapify(x) == HeapifyFrom(x, (Len(x) \div 2) - 1)

\* ------------------------------------------------------------ MessageQueue
\* the queue as one value
Q == [queue |-> queue, counter |-> counter, size |-> size]

\* mutant: the priority is pushed as it is
HeapPriorityAsIs(m) == m.priority

\* the heap key of a message: negated, for the min-heap
HeapPriority(m) == 0 - m.priority

\* mutant: put without the capacity check
put_unchecked(q, m) ==
  [q |-> [queue |-> heappush(q.queue, <<HeapPriority(m), q.counter, m>>),
          counter |-> q.counter + 1,
          size |-> q.size + 1],
   ok |-> TRUE]

\* MessageQueue.put: the queue after, and what put returns
put(q, m) ==
  IF q.size >= MaxSize
  THEN [q |-> q, ok |-> FALSE]
  ELSE [q |-> [queue |-> heappush(q.queue, <<HeapPriority(m), q.counter, m>>),
               counter |-> q.counter + 1,
               size |-> q.size + 1],
        ok |-> TRUE]

\* MessageQueue.get on a non-empty queue
get(q) ==
  LET p == heappop(q.queue)
  IN [q |-> [queue |-> p.heap, counter |-> q.counter, size |-> q.size - 1],
      msg |-> p.item[3]]

\* mutant: clear_expired without the heapify
clear_expired_unheapified(q, t) ==
  IF q.queue = <<>>
  THEN [q |-> q, removed |-> 0]
  ELSE LET new_queue == SelectSeq(q.queue, LAMBDA e: ~is_expired(e[3], t))
       IN [q |-> [queue |-> new_queue,
                  counter |-> q.counter,
                  size |-> Len(new_queue)],
           removed |-> Len(q.queue) - Len(new_queue)]

\* MessageQueue.clear_expired at clock t
clear_expired(q, t) ==
  IF q.queue = <<>>
  THEN [q |-> q, removed |-> 0]
  ELSE LET new_queue == SelectSeq(q.queue, LAMBDA e: ~is_expired(e[3], t))
       IN [q |-> [queue |-> heapify(new_queue),
                  counter |-> q.counter,
                  size |-> Len(new_queue)],
           removed |-> Len(q.queue) - Len(new_queue)]


\* ------------------------------------------------------------ CommunicationBus
\* filter_func(message) raises: the filter "raises" does so on every message
FilterRaises(kind, m) == kind = "raises"

\* a registered filter called on a message that it does not raise on
FilterAccepts(kind, m) ==
  CASE kind = "drop_low" -> m.priority >= 2
    [] kind = "drop_agent" -> m.sender \notin Agents
    [] OTHER -> TRUE

\* mutant: every filter is called, whatever the ones before it returned
RECURSIVE run_filters_all(_, _, _)
run_filters_all(fs, m, called) ==
  IF fs = <<>> THEN [ok |-> TRUE, called |-> called]
  ELSE LET r == run_filters_all(Tail(fs), m, Append(called, Head(fs)))
       IN [ok |-> FilterAccepts(Head(fs), m) /\ r.ok, called |-> r.called]

\* mutant: a filter that raises rejects the message
RECURSIVE run_filters_rejecting(_, _, _)
run_filters_rejecting(fs, m, called) ==
  IF fs = <<>> THEN [ok |-> TRUE, called |-> called]
  ELSE IF FilterRaises(Head(fs), m) \/ ~FilterAccepts(Head(fs), m)
  THEN [ok |-> FALSE, called |-> Append(called, Head(fs))]
  ELSE run_filters_rejecting(Tail(fs), m, Append(called, Head(fs)))

\* the loop of _apply_filters from the filters fs on: what it returns and
\* the filters it has called, in call order; a filter that raises is logged
\* inside the loop, which goes on with the next filter
RECURSIVE run_filters(_, _, _)
run_filters(fs, m, called) ==
  IF fs = <<>> THEN [ok |-> TRUE, called |-> called]
  ELSE IF ~FilterRaises(Head(fs), m) /\ ~FilterAccepts(Head(fs), m)
  THEN [ok |-> FALSE, called |-> Append(called, Head(fs))]
  ELSE run_filters(Tail(fs), m, Append(called, Head(fs)))

\* CommunicationBus._apply_filters: registration order, first rejection returns
apply_filters(fs, m) == run_filters(fs, m, <<>>).ok

\* the part of the bus send_message writes
B == [q |-> Q, metrics |-> metrics, history |-> history]

\* mutant: a full history keeps what it has
history_append_full(h, m) ==
  IF Len(h) >= MaxHistory THEN h ELSE Append(h, m)

\* message_history.append(message) on the deque with maxlen
history_append(h, m) ==
  IF Len(h) >= MaxHistory THEN Append(Tail(h), m) ELSE Append(h, m)

\* mutant: send_message without the expiry check
send_message_unexpired(b, m, fs, t) ==
  LET called == run_filters(fs, m, <<>>).called
  IN IF ~apply_filters(fs, m)
     THEN [b |-> b, ok |-> FALSE, called |-> called]
     ELSE LET p == put(b.q, m)
          IN IF ~p.ok
             THEN [b |-> b, ok |-> FALSE, called |-> called]
             ELSE [b |-> [q |-> p.q,
                          metrics |-> [b.metrics EXCEPT !.messages_sent = @ + 1],
                          history |-> history_append(b.history, m)],
                   ok |-> TRUE, called |-> called]

\* mutant: send_message counts and records the message before the put
send_message_counting(b, m, fs, t) ==
  LET called == run_filters(fs, m, <<>>).called
  IN IF ~apply_filters(fs, m)
     THEN [b |-> b, ok |-> FALSE, called |-> called]
     ELSE IF is_expired(m, t)
     THEN [b |-> [b EXCEPT !.metrics.messages_expired = @ + 1], ok |-> FALSE,
           called |-> called]
     ELSE LET p == put(b.q, m)
              counted == [b EXCEPT !.metrics.messages_sent = @ + 1,
                                   !.history = history_append(b.history, m)]
          IN IF ~p.ok
             THEN [b |-> counted, ok |-> FALSE, called |-> called]
             ELSE [b |-> [counted EXCEPT !.q = p.q], ok |-> TRUE, called |-> called]

\* CommunicationBus.send_message at clock t, up to the notification of the
\* clients
send_message(b, m, fs, t) ==
  LET called == run_filters(fs, m, <<>>).called
  IN IF ~apply_filters(fs, m)
     THEN [b |-> b, ok |-> FALSE, called |-> called]
     ELSE IF is_expired(m, t)
     THEN [b |-> [b EXCEPT !.metrics.messages_expired = @ + 1], ok |-> FALSE,
           called |-> called]
     ELSE LET p == put(b.q, m)
          IN IF ~p.ok
             THEN [b |-> b, ok |-> FALSE, called |-> called]
             ELSE [b |-> [q |-> p.q,
                          metrics |-> [b.metrics EXCEPT !.messages_sent = @ + 1],
                          history |-> history_append(b.history, m)],
                   ok |-> TRUE, called |-> called]

\* mutant: a group resolves to every subscriber
get_group_members_everyone(group_name) == subscribers

\* CommunicationBus._get_group_members: the placeholder
get_group_members(group_name) == {}

\* recipient.startswith("group:"), on the recipients of the vocabulary
IsGroup(recipient) == recipient \in GroupRecipients

\* mutant: a broadcast goes to the sender too
determine_recipients_all(m, subs) ==
  IF m.recipient = "broadcast"
  THEN subs
  ELSE IF IsGroup(m.recipient)
  THEN get_group_members(m.recipient)
  ELSE IF m.recipient \in subs THEN {m.recipient} ELSE {}

\* CommunicationBus._determine_recipients
determine_recipients(m, subs) ==
  IF m.recipient = "broadcast"
  THEN {agent_id \in subs : agent_id # m.sender}
  ELSE IF IsGroup(m.recipient)
  THEN get_group_members(m.recipient)
  ELSE IF m.recipient \in subs THEN {m.recipient} ELSE {}

\* mutant: the recipient's copy is stored, not the message
AppendFailedCopy(fd, recipient, m) ==
  [a \in DOMAIN fd \cup {recipient} |->
     IF a = recipient
     THEN Append(IF a \in DOMAIN fd THEN fd[a] ELSE <<>>, [m EXCEPT !.recipient = recipient])
     ELSE fd[a]]

\* failed_deliveries[recipient].append(message) on the defaultdict
AppendFailed(fd, recipient, m) ==
  [a \in DOMAIN fd \cup {recipient} |->
     IF a = recipient
     THEN Append(IF a \in DOMAIN fd THEN fd[a] ELSE <<>>, m)
     ELSE fd[a]]

\* mutant: unsubscribe leaves the backlog
DelFailedKept(fd, agent_id) == fd

\* del failed_deliveries[agent_id]
DelFailed(fd, agent_id) == [a \in DOMAIN fd \ {agent_id} |-> fd[a]]

\* a message as a producer builds it
NewMessage(id, sender, recipient, priority, ttl, ts) ==
  [id |-> id, sender |-> sender, recipient |-> recipient,
   message_type |-> "task", priority |-> priority, ttl |-> ttl, ts |-> ts]

Done(st) == st \in {"ok", "raised", "nocb"}

\* mutant: the processing loop runs whether or not the bus was started
ProcessingAliveUnstarted == TRUE

\* a task of the event loop: "alive", "cancelling" once cancel() was called on
\* it and CancelledError is still to be thrown into it, "done"
\* the loop of _process_messages can take a step: the bus is running and the
\* task start() created last is alive
ProcessingAlive ==
  running /\ processing # <<>> /\ processing[Len(processing)] = "alive"

\* the loop of _cleanup_expired can take a step
CleanupAlive ==
  running /\ cleanup # <<>> /\ cleanup[Len(cleanup)] = "alive"

\* ------------------------------------------------------------ state
Init ==
  /\ queue = <<>>
  /\ counter = 0
  /\ size = 0
  /\ subscribers = {}
  /\ failed = EmptyMap
  /\ metrics = [messages_sent |-> 0, messages_delivered |-> 0,
                messages_failed |-> 0, messages_expired |-> 0,
                total_subscribers |-> 0]
  /\ filters = <<>>
  /\ now = 0
  /\ cur = NoMsg
  /\ tasks = EmptyMap
  /\ calls = [a \in Agents |-> 0]
  /\ produced = 0
  /\ last = [op |-> "init"]
  /\ history = <<>>
  /\ running = FALSE
  /\ processing = <<>>
  /\ cleanup = <<>>
  /\ websocket_clients = {}
  /\ notifying = {}
  /\ agent = NewAgent(DefaultMaxTasks)

\* MessageQueue.put(m) called on the queue itself
Put(sender, recipient, priority, ttl, ts) ==
  /\ UNCHANGED <<lifecycle, websocket_clients, notifying, agent>>
  /\ LET m == NewMessage(produced + 1, sender, recipient, priority, ttl, ts)
         p == put(Q, m)
     IN /\ queue' = p.q.queue
        /\ counter' = p.q.counter
        /\ size' = p.q.size
        /\ produced' = produced + 1
        /\ last' = [op |-> "put", ret |-> p.ok]
  /\ UNCHANGED <<subscribers, failed, metrics, filters, now, cur, tasks, calls, history>>

\* the call op(arg) of send_message for message id, suspended in
\* _notify_websocket_clients: the set iterator remembers the size the set had
\* when the loop began, send_text is awaited on client
Notification(id, op, arg, called, client) ==
  [id |-> id, op |-> op, arg |-> arg, called |-> called,
   used |-> Cardinality(websocket_clients), seen |-> {}, client |-> client,
   disconnected |-> {}]

\* a producer awaits send_message(m): with the message accepted and a client
\* connected the call suspends in the notification, otherwise it returns
Send(sender, recipient, priority, ttl, ts) ==
  /\ LET m == NewMessage(produced + 1, sender, recipient, priority, ttl, ts)
         r == send_message(B, m, filters, now)
     IN /\ queue' = r.b.q.queue
        /\ counter' = r.b.q.counter
        /\ size' = r.b.q.size
        /\ metrics' = r.b.metrics
        /\ history' = r.b.history
        /\ produced' = produced + 1
        /\ IF r.ok /\ websocket_clients # {}
           THEN /\ \E client \in websocket_clients :
                     notifying' = notifying \cup
                                    {Notification(m.id, "send", "None", r.called, client)}
                /\ last' = [op |-> "step"]
           ELSE /\ notifying' = notifying
                /\ last' = [op |-> "send", ret |-> r.ok, called |-> r.called]
  /\ UNCHANGED <<subscribers, failed, filters, now, cur, tasks, calls>>
  /\ UNCHANGED <<lifecycle, websocket_clients, agent>>

\* mutant: subscribe without the check of the callback
SubscribeUnchecked(agent_id, callback) ==
  /\ LET welcome == [NewMessage(produced + 1, "communication_bus", agent_id, 1, <<>>, now)
                      EXCEPT !.message_type = "status_update"]
         subs == subscribers \cup {agent_id}
         b == [B EXCEPT !.metrics.total_subscribers = Cardinality(subs)]
         r == send_message(b, welcome, filters, now)
     IN /\ subscribers' = subs
        /\ queue' = r.b.q.queue
        /\ counter' = r.b.q.counter
        /\ size' = r.b.q.size
        /\ metrics' = r.b.metrics
        /\ history' = r.b.history
        /\ produced' = produced + 1
        /\ IF r.ok /\ websocket_clients # {}
           THEN /\ \E client \in websocket_clients :
                     notifying' = notifying \cup
                                    {Notification(welcome.id, "subscribe", agent_id,
                                                  r.called, client)}
                /\ last' = [op |-> "step"]
           ELSE /\ notifying' = notifying
                /\ last' = [op |-> "subscribe", arg |-> agent_id, ret |-> r.ok]
  /\ UNCHANGED <<failed, filters, now, cur, tasks, calls>>
  /\ UNCHANGED <<lifecycle, websocket_clients, agent>>

\* subscribe(agent_id, callback): a callback that is not a coroutine
\* function raises ValueError before anything is written; otherwise the
\* address is registered and the welcome message is sent
Subscribe(agent_id, callback) ==
  IF callback # "async"
  THEN /\ last' = [op |-> "subscribe_error", arg |-> agent_id, error |-> "ValueError"]
       /\ UNCHANGED <<queue, counter, size, subscribers, failed, metrics, filters,
                      now, cur, tasks, calls, produced, history>>
       /\ UNCHANGED <<lifecycle, websocket_clients, notifying, agent>>
  ELSE /\ LET welcome == [NewMessage(produced + 1, "communication_bus", agent_id, 1, <<>>, now)
                           EXCEPT !.message_type = "status_update"]
              subs == subscribers \cup {agent_id}
              b == [B EXCEPT !.metrics.total_subscribers = Cardinality(subs)]
              r == send_message(b, welcome, filters, now)
          IN /\ subscribers' = subs
             /\ queue' = r.b.q.queue
             /\ counter' = r.b.q.counter
             /\ size' = r.b.q.size
             /\ metrics' = r.b.metrics
             /\ history' = r.b.history
             /\ produced' = produced + 1
             /\ IF r.ok /\ websocket_clients # {}
                THEN /\ \E client \in websocket_clients :
                          notifying' = notifying \cup
                                         {Notification(welcome.id, "subscribe", agent_id,
                                                       r.called, client)}
                     /\ last' = [op |-> "step"]
                ELSE /\ notifying' = notifying
                     /\ last' = [op |-> "subscribe", arg |-> agent_id, ret |-> r.ok]
       /\ UNCHANGED <<failed, filters, now, cur, tasks, calls>>
       /\ UNCHANGED <<lifecycle, websocket_clients, agent>>

\* unsubscribe(agent_id)
Unsubscribe(agent_id) ==
  /\ UNCHANGED <<lifecycle, websocket_clients, notifying, agent>>
  /\ IF agent_id \in subscribers
     THEN /\ subscribers' = subscribers \ {agent_id}
          /\ metrics' = [metrics EXCEPT !.total_subscribers = Cardinality(subscribers \ {agent_id})]
          /\ failed' = IF agent_id \in DOMAIN failed THEN DelFailed(failed, agent_id) ELSE failed
     ELSE UNCHANGED <<subscribers, metrics, failed>>
  /\ last' = [op |-> "unsubscribe", arg |-> agent_id,
              was |-> agent_id \in subscribers,
              had |-> agent_id \in DOMAIN failed /\ failed[agent_id] # <<>>]
  /\ UNCHANGED <<queue, counter, size, filters, now, cur, tasks, calls, produced, history>>

\* add_message_filter(filter_func)
AddFilter(kind) ==
  /\ UNCHANGED <<lifecycle, websocket_clients, notifying, agent>>
  /\ filters' = Append(filters, kind)
  /\ last' = [op |-> "step"]
  /\ UNCHANGED <<queue, counter, size, subscribers, failed, metrics, now,
                 cur, tasks, calls, produced, history>>

\* the clock advances by d seconds
Tick(d) ==
  /\ UNCHANGED <<lifecycle, websocket_clients, notifying, agent>>
  /\ d > 0
  /\ now' = now + d
  /\ last' = [op |-> "step"]
  /\ UNCHANGED <<queue, counter, size, subscribers, failed, metrics, filters,
                 cur, tasks, calls, produced, history>>

\* mutant: the loop takes the next message while deliveries are open
DequeueEager ==
  /\ ProcessingAlive
  /\ UNCHANGED <<lifecycle, websocket_clients, notifying, agent>>
  /\ queue # <<>>
  /\ LET g == get(Q)
         recipients == determine_recipients(g.msg, subscribers)
         started == {r \in recipients : r \in subscribers}
     IN /\ queue' = g.q.queue
        /\ counter' = g.q.counter
        /\ size' = g.q.size
        /\ tasks' = [r \in started |-> "pending"]
        /\ cur' = IF started = {} THEN NoMsg ELSE g.msg
        /\ calls' = [a \in Agents |-> 0]
        /\ last' = [op |-> "step"]
  /\ UNCHANGED <<subscribers, failed, metrics, filters, now, produced, history>>

\* message.recipient.startswith raises AttributeError on a recipient that is
\* None
RoutingRaises(m) == m.recipient = "None"

\* _process_messages: get() returns a message and _route_message runs up to
\* its gather: the recipients are resolved and one delivery task per
\* subscribed recipient is created; with no task _route_message returns, and
\* an exception while resolving is caught there and counted as a failure
Dequeue ==
  /\ ProcessingAlive
  /\ UNCHANGED <<lifecycle, websocket_clients, notifying, agent>>
  /\ cur = NoMsg
  /\ queue # <<>>
  /\ LET g == get(Q)
         recipients == IF RoutingRaises(g.msg) THEN {}
                       ELSE determine_recipients(g.msg, subscribers)
         started == {r \in recipients : r \in subscribers}
     IN /\ queue' = g.q.queue
        /\ counter' = g.q.counter
        /\ size' = g.q.size
        /\ tasks' = [r \in started |-> "pending"]
        /\ cur' = IF started = {} THEN NoMsg ELSE g.msg
        /\ calls' = [a \in Agents |-> 0]
        /\ metrics' = IF RoutingRaises(g.msg)
                      THEN [metrics EXCEPT !.messages_failed = @ + 1]
                      ELSE metrics
        /\ last' = IF RoutingRaises(g.msg)
                   THEN [op |-> "route_error"] ELSE [op |-> "step"]
  /\ UNCHANGED <<subscribers, failed, filters, now, produced, history>>

\* _deliver_to_subscriber starts: the callback is looked up and, if there is
\* one, invoked with the recipient's copy of the message
DeliverStart(recipient) ==
  /\ ProcessingAlive
  /\ UNCHANGED <<lifecycle, websocket_clients, notifying, agent>>
  /\ recipient \in DOMAIN tasks
  /\ tasks[recipient] = "pending"
  /\ IF recipient \in subscribers
     THEN /\ tasks' = [tasks EXCEPT ![recipient] = "running"]
          /\ calls' = [calls EXCEPT ![recipient] = @ + 1]
     ELSE /\ tasks' = [tasks EXCEPT ![recipient] = "nocb"]
          /\ calls' = calls
  /\ last' = [op |-> "step"]
  /\ UNCHANGED <<queue, counter, size, subscribers, failed, metrics, filters,
                 now, cur, produced, history>>

\* the awaited callback completes: _deliver_to_subscriber returns True
DeliverComplete(recipient) ==
  /\ ProcessingAlive
  /\ UNCHANGED <<lifecycle, websocket_clients, notifying, agent>>
  /\ recipient \in DOMAIN tasks
  /\ tasks[recipient] = "running"
  /\ tasks' = [tasks EXCEPT ![recipient] = "ok"]
  /\ last' = [op |-> "step"]
  /\ UNCHANGED <<queue, counter, size, subscribers, failed, metrics, filters,
                 now, cur, calls, produced, history>>

\* mutant: a raising callback aborts the deliveries still open
DeliverFailAborts(recipient) ==
  /\ ProcessingAlive
  /\ UNCHANGED <<lifecycle, websocket_clients, notifying, agent>>
  /\ recipient \in DOMAIN tasks
  /\ tasks[recipient] = "running"
  /\ tasks' = [o \in DOMAIN tasks |->
                 IF o = recipient THEN "raised"
                 ELSE IF tasks[o] \in {"pending", "running"} THEN "nocb"
                 ELSE tasks[o]]
  /\ failed' = AppendFailed(failed, recipient, cur)
  /\ last' = [op |-> "step"]
  /\ UNCHANGED <<queue, counter, size, subscribers, metrics, filters,
                 now, cur, calls, produced, history>>

\* the awaited callback raises: the message goes to the recipient's backlog
\* and _deliver_to_subscriber returns False
DeliverFail(recipient) ==
  /\ ProcessingAlive
  /\ UNCHANGED <<lifecycle, websocket_clients, notifying, agent>>
  /\ recipient \in DOMAIN tasks
  /\ tasks[recipient] = "running"
  /\ tasks' = [tasks EXCEPT ![recipient] = "raised"]
  /\ failed' = AppendFailed(failed, recipient, cur)
  /\ last' = [op |-> "step"]
  /\ UNCHANGED <<queue, counter, size, subscribers, metrics, filters,
                 now, cur, calls, produced, history>>

\* mutant: every delivery attempted is counted as delivered
RouteFinishAttempted ==
  /\ ProcessingAlive
  /\ UNCHANGED <<lifecycle, websocket_clients, notifying, agent>>
  /\ cur # NoMsg
  /\ \A r \in DOMAIN tasks : Done(tasks[r])
  /\ metrics' = [metrics EXCEPT !.messages_delivered = @ + Cardinality(DOMAIN tasks)]
  /\ last' = [op |-> "step"]
  /\ cur' = NoMsg
  /\ tasks' = EmptyMap
  /\ calls' = [a \in Agents |-> 0]
  /\ UNCHANGED <<queue, counter, size, subscribers, failed, filters, now, produced, history>>

\* mutant: the gather of _route_message never returns
RouteFinishHolding ==
  /\ ProcessingAlive
  /\ cur # NoMsg
  /\ \A r \in DOMAIN tasks : Done(tasks[r])
  /\ UNCHANGED vars

\* the gather of _route_message returns: the results are counted
RouteFinish ==
  /\ ProcessingAlive
  /\ UNCHANGED <<lifecycle, websocket_clients, notifying, agent>>
  /\ cur # NoMsg
  /\ \A r \in DOMAIN tasks : Done(tasks[r])
  /\ LET successful_deliveries == Cardinality({r \in DOMAIN tasks : tasks[r] = "ok"})
         failed_deliveries == Cardinality(DOMAIN tasks) - successful_deliveries
     IN /\ metrics' = [metrics EXCEPT !.messages_delivered = @ + successful_deliveries,
                                      !.messages_failed = @ + failed_deliveries]
        /\ last' = [op |-> "step"]
  /\ cur' = NoMsg
  /\ tasks' = EmptyMap
  /\ calls' = [a \in Agents |-> 0]
  /\ UNCHANGED <<queue, counter, size, subscribers, failed, filters, now, produced, history>>

\* the orders in which a dict may hold the keys S
KeyOrders(S) ==
  {o \in [1..Cardinality(S) -> S] : \A i, j \in 1..Cardinality(S) : i # j => o[i] # o[j]}

\* datetime.fromisoformat(timestamp) raises ValueError on a timestamp that is
\* no ISO date; such a timestamp is written as -1
Unparsable == 0 - 1

\* mutant: the retention loop keeps every backlog entry
retain_everything(fd, order, cutoff_time) == [failed |-> fd, raised |-> FALSE]

\* the retention loop of _cleanup_expired over the keys in dict order: each
\* backlog is replaced by its messages younger than the cutoff; a timestamp
\* that does not parse raises out of the loop, the backlogs replaced before
\* it stay replaced
RECURSIVE retain(_, _, _)
retain(fd, order, cutoff_time) ==
  IF order = <<>> THEN [failed |-> fd, raised |-> FALSE]
  ELSE LET agent_id == Head(order)
       IN IF \E i \in 1..Len(fd[agent_id]) : fd[agent_id][i].ts = Unparsable
          THEN [failed |-> fd, raised |-> TRUE]
          ELSE retain([fd EXCEPT ![agent_id] =
                          SelectSeq(fd[agent_id], LAMBDA m: m.ts > cutoff_time)],
                      Tail(order), cutoff_time)

\* mutant: an exception in the retention loop ends the sweep task
SweepUncaught ==
  /\ CleanupAlive
  /\ UNCHANGED <<running, processing, websocket_clients, notifying, agent>>
  /\ LET c == clear_expired(Q, now)
         cutoff_time == now - RetentionSeconds
     IN /\ queue' = c.q.queue
        /\ counter' = c.q.counter
        /\ size' = c.q.size
        /\ metrics' = [metrics EXCEPT !.messages_expired = @ + c.removed]
        /\ \E order \in KeyOrders(DOMAIN failed) :
             LET r == retain(failed, order, cutoff_time)
             IN /\ failed' = r.failed
                /\ cleanup' = IF r.raised THEN [cleanup EXCEPT ![Len(cleanup)] = "done"]
                              ELSE cleanup
                /\ last' = IF r.raised THEN [op |-> "sweep_error", ret |-> c.removed]
                           ELSE [op |-> "sweep", ret |-> c.removed]
  /\ UNCHANGED <<subscribers, filters, now, cur, tasks, calls, produced, history>>

\* one iteration of _cleanup_expired at clock now; an exception is caught
\* by the loop, which sleeps and goes on
Sweep ==
  /\ CleanupAlive
  /\ UNCHANGED <<lifecycle, websocket_clients, notifying, agent>>
  /\ LET c == clear_expired(Q, now)
         cutoff_time == now - RetentionSeconds
     IN /\ queue' = c.q.queue
        /\ counter' = c.q.counter
        /\ size' = c.q.size
        /\ metrics' = [metrics EXCEPT !.messages_expired = @ + c.removed]
        /\ \E order \in KeyOrders(DOMAIN failed) :
             LET r == retain(failed, order, cutoff_time)
             IN /\ failed' = r.failed
                /\ last' = IF r.raised THEN [op |-> "sweep_error", ret |-> c.removed]
                           ELSE [op |-> "sweep", ret |-> c.removed]
  /\ UNCHANGED <<subscribers, filters, now, cur, tasks, calls, produced, history>>

\* mutant: the expired messages of the backlog are resubmitted too
RECURSIVE resubmit_all(_, _, _, _, _)
resubmit_all(b, failed_msgs, fs, t, retry_count) ==
  IF failed_msgs = <<>>
  THEN [b |-> b, retry_count |-> retry_count]
  ELSE LET r == send_message(b, Head(failed_msgs), fs, t)
       IN resubmit_all(r.b, Tail(failed_msgs), fs, t,
                       IF r.ok THEN retry_count + 1 ELSE retry_count)

\* the inner loop of retry_failed_deliveries: every message of the copied
\* backlog that has not expired goes to send_message; the accepted are counted
RECURSIVE resubmit(_, _, _, _, _)
resubmit(b, failed_msgs, fs, t, retry_count) ==
  IF failed_msgs = <<>>
  THEN [b |-> b, retry_count |-> retry_count]
  ELSE LET message == Head(failed_msgs)
       IN IF ~is_expired(message, t)
          THEN LET r == send_message(b, message, fs, t)
               IN resubmit(r.b, Tail(failed_msgs), fs, t,
                           IF r.ok THEN retry_count + 1 ELSE retry_count)
          ELSE resubmit(b, Tail(failed_msgs), fs, t, retry_count)

\* mutant: the backlog is resubmitted without being cleared
RECURSIVE retry_agents_uncleared(_, _, _, _, _, _)
retry_agents_uncleared(b, fd, agents_to_retry, fs, t, retry_count) ==
  IF agents_to_retry = <<>>
  THEN [b |-> b, failed |-> fd, retry_count |-> retry_count]
  ELSE LET aid == Head(agents_to_retry)
       IN IF aid \notin DOMAIN fd
          THEN retry_agents_uncleared(b, fd, Tail(agents_to_retry), fs, t, retry_count)
          ELSE LET r == resubmit(b, fd[aid], fs, t, retry_count)
               IN retry_agents_uncleared(r.b, fd, Tail(agents_to_retry), fs, t,
                                         r.retry_count)

\* the outer loop: each address of agents_to_retry that has a backlog has it
\* copied, cleared and resubmitted
RECURSIVE retry_agents(_, _, _, _, _, _)
retry_agents(b, fd, agents_to_retry, fs, t, retry_count) ==
  IF agents_to_retry = <<>>
  THEN [b |-> b, failed |-> fd, retry_count |-> retry_count]
  ELSE LET aid == Head(agents_to_retry)
       IN IF aid \notin DOMAIN fd
          THEN retry_agents(b, fd, Tail(agents_to_retry), fs, t, retry_count)
          ELSE LET r == resubmit(b, fd[aid], fs, t, retry_count)
               IN retry_agents(r.b, [fd EXCEPT ![aid] = <<>>],
                               Tail(agents_to_retry), fs, t, r.retry_count)

\* messages in the backlogs of the addresses in S
BacklogTotal(S) ==
  LET RECURSIVE Sum(_)
      Sum(T) == IF T = {} THEN 0
                ELSE LET a == CHOOSE x \in T : TRUE
                     IN Len(failed[a]) + Sum(T \ {a})
  IN Sum(S \cap DOMAIN failed)

\* retry_failed_deliveries(agent_id), agent_id "None" when omitted, on a bus
\* with no notification client: no resubmission suspends
Retry(agent_id) ==
  \E agents_to_retry \in (IF agent_id # "None" THEN {<<agent_id>>}
                          ELSE KeyOrders(DOMAIN failed)) :
    /\ websocket_clients = {}
    /\ UNCHANGED <<lifecycle, websocket_clients, notifying, agent>>
    /\ LET r == retry_agents(B, failed, agents_to_retry, filters, now, 0)
       IN /\ queue' = r.b.q.queue
          /\ counter' = r.b.q.counter
          /\ size' = r.b.q.size
          /\ metrics' = r.b.metrics
          /\ failed' = r.failed
          /\ history' = r.b.history
          /\ last' = [op |-> "retry", arg |-> agent_id, ret |-> r.retry_count,
                      had |-> BacklogTotal(IF agent_id = "None" THEN DOMAIN failed
                                           ELSE {agent_id})]
    /\ UNCHANGED <<subscribers, filters, now, cur, tasks, calls, produced>>

\* list.sort(key=timestamp, reverse=True): stable, so messages of one
\* timestamp keep the order they had
RECURSIVE InsertDesc(_, _)
InsertDesc(sorted, m) ==
  IF sorted = <<>> THEN <<m>>
  ELSE IF Head(sorted).ts >= m.ts
  THEN <<Head(sorted)>> \o InsertDesc(Tail(sorted), m)
  ELSE <<m>> \o sorted

RECURSIVE SortDescFrom(_, _)
SortDescFrom(messages, sorted) ==
  IF messages = <<>> THEN sorted
  ELSE SortDescFrom(Tail(messages), InsertDesc(sorted, Head(messages)))

SortDesc(messages) == SortDescFrom(messages, <<>>)

\* messages[:limit], limit >= 0
Slice(messages, limit) ==
  SubSeq(messages, 1, IF limit < Len(messages) THEN limit ELSE Len(messages))

\* mutant: the history is returned in the order it was appended
get_message_history_unsorted(h, agent_id, message_type, limit, since) ==
  LET by_agent == IF agent_id # "None"
                  THEN SelectSeq(h, LAMBDA msg : msg.sender = agent_id \/ msg.recipient = agent_id)
                  ELSE h
      by_type == IF message_type # "None"
                 THEN SelectSeq(by_agent, LAMBDA msg : msg.message_type = message_type)
                 ELSE by_agent
      by_time == IF since # <<>>
                 THEN SelectSeq(by_type, LAMBDA msg : msg.ts > since[1])
                 ELSE by_type
  IN Slice(by_time, limit)

\* CommunicationBus.get_message_history on the history h
get_message_history(h, agent_id, message_type, limit, since) ==
  LET by_agent == IF agent_id # "None"
                  THEN SelectSeq(h, LAMBDA msg : msg.sender = agent_id \/ msg.recipient = agent_id)
                  ELSE h
      by_type == IF message_type # "None"
                 THEN SelectSeq(by_agent, LAMBDA msg : msg.message_type = message_type)
                 ELSE by_agent
      by_time == IF since # <<>>
                 THEN SelectSeq(by_type, LAMBDA msg : msg.ts > since[1])
                 ELSE by_type
  IN Slice(SortDesc(by_time), limit)

\* a caller reads get_message_history(agent_id, message_type, limit, since)
GetHistory(agent_id, message_type, limit, since) ==
  /\ UNCHANGED <<lifecycle, websocket_clients, notifying, agent>>
  /\ last' = [op |-> "history", agent_id |-> agent_id, message_type |-> message_type,
              limit |-> limit, since |-> since,
              ret |-> get_message_history(history, agent_id, message_type, limit, since)]
  /\ UNCHANGED <<queue, counter, size, subscribers, failed, metrics, filters, now,
                 cur, tasks, calls, produced, history>>

\* a / b as Python's float division gives it, kept as the exact fraction
Div(a, b) == [num |-> a, den |-> b]

\* the fraction r times the integer k
Times(r, k) == [num |-> r.num * k, den |-> r.den]

\* max(1, n)
Max1(n) == IF n > 1 THEN n ELSE 1

\* mutant: the rate is taken over the deliveries attempted
get_statistics_attempted ==
  [messages_sent |-> metrics.messages_sent,
   messages_delivered |-> metrics.messages_delivered,
   messages_failed |-> metrics.messages_failed,
   messages_expired |-> metrics.messages_expired,
   total_subscribers |-> metrics.total_subscribers,
   uptime_seconds |-> now,
   queue_size |-> size,
   queue_capacity |-> MaxSize,
   queue_utilization |-> Times(Div(size, MaxSize), 100),
   history_size |-> Len(history),
   active_subscribers |-> Cardinality(subscribers),
   failed_delivery_queues |-> Cardinality(DOMAIN failed),
   message_filters |-> Len(filters),
   success_rate |-> Times(Div(metrics.messages_delivered,
                              Max1(metrics.messages_delivered + metrics.messages_failed)), 100)]

\* what CommunicationBus.get_statistics returns (the bus started at clock 0)
get_statistics ==
  [messages_sent |-> metrics.messages_sent,
   messages_delivered |-> metrics.messages_delivered,
   messages_failed |-> metrics.messages_failed,
   messages_expired |-> metrics.messages_expired,
   total_subscribers |-> metrics.total_subscribers,
   uptime_seconds |-> now,
   queue_size |-> size,
   queue_capacity |-> MaxSize,
   queue_utilization |-> Times(Div(size, MaxSize), 100),
   history_size |-> Len(history),
   active_subscribers |-> Cardinality(subscribers),
   failed_delivery_queues |-> Cardinality(DOMAIN failed),
   message_filters |-> Len(filters),
   success_rate |-> Times(Div(metrics.messages_delivered, Max1(metrics.messages_sent)), 100)]

\* mutant: reading the statistics looks every subscriber's backlog up in the
\* defaultdict, which creates the missing keys
GetStatisticsTouching ==
  /\ UNCHANGED <<lifecycle, websocket_clients, notifying, agent>>
  /\ last' = [op |-> "stats", ret |-> get_statistics]
  /\ failed' = [a \in DOMAIN failed \cup subscribers |->
                  IF a \in DOMAIN failed THEN failed[a] ELSE <<>>]
  /\ UNCHANGED <<queue, counter, size, subscribers, metrics, filters, now,
                 cur, tasks, calls, produced, history>>

\* a caller reads get_statistics()
GetStatistics ==
  /\ UNCHANGED <<lifecycle, websocket_clients, notifying, agent>>
  /\ last' = [op |-> "stats", ret |-> get_statistics]
  /\ UNCHANGED <<queue, counter, size, subscribers, failed, metrics, filters, now,
                 cur, tasks, calls, produced, history>>

\* ------------------------------------------------------------ start and stop
\* mutant: start() creates its two tasks on a running bus as well
StartAgain ==
  /\ running' = TRUE
  /\ processing' = Append(processing, "alive")
  /\ cleanup' = Append(cleanup, "alive")
  /\ last' = [op |-> "start", was |-> running]
  /\ UNCHANGED <<queue, counter, size, subscribers, failed, metrics, filters, now,
                 cur, tasks, calls, produced, history, websocket_clients,
                 notifying, agent>>

\* start(): on a running bus it returns; otherwise the bus is running and
\* one task per loop is created
Start ==
  /\ IF running
     THEN UNCHANGED lifecycle
     ELSE /\ running' = TRUE
          /\ processing' = Append(processing, "alive")
          /\ cleanup' = Append(cleanup, "alive")
  /\ last' = [op |-> "start", was |-> running]
  /\ UNCHANGED <<queue, counter, size, subscribers, failed, metrics, filters, now,
                 cur, tasks, calls, produced, history, websocket_clients,
                 notifying, agent>>

\* mutant: stop() that only clears the flag
cancel_nothing(ts) == ts

\* task.cancel() on the task start() created last, if there is one and it
\* is not done
cancel(ts) ==
  IF ts # <<>> /\ ts[Len(ts)] # "done"
  THEN [ts EXCEPT ![Len(ts)] = "cancelling"]
  ELSE ts

\* stop(): the flag is cleared and both tasks are cancelled; cancelling the
\* processing task cancels the gather it awaits and with it the delivery
\* tasks of the message being routed, none of which runs again
Stop ==
  /\ running' = FALSE
  /\ processing' = cancel(processing)
  /\ cleanup' = cancel(cleanup)
  /\ IF cancel(processing) # processing
     THEN /\ cur' = NoMsg
          /\ tasks' = EmptyMap
          /\ calls' = [a \in Agents |-> 0]
     ELSE UNCHANGED <<cur, tasks, calls>>
  /\ last' = [op |-> "stop", was |-> running]
  /\ UNCHANGED <<queue, counter, size, subscribers, failed, metrics, filters, now,
                 produced, history, websocket_clients, notifying, agent>>

\* the event loop throws CancelledError into a cancelled processing task,
\* the oldest first: neither loop catches it, the task is done
ProcessingCancelled ==
  /\ \E i \in 1..Len(processing) :
       /\ processing[i] = "cancelling"
       /\ \A j \in 1..(i - 1) : processing[j] = "done"
       /\ processing' = [processing EXCEPT ![i] = "done"]
  /\ last' = [op |-> "step"]
  /\ UNCHANGED <<queue, counter, size, subscribers, failed, metrics, filters, now,
                 cur, tasks, calls, produced, history, running, cleanup,
                 websocket_clients, notifying, agent>>

\* the same for a cancelled sweep task
CleanupCancelled ==
  /\ \E i \in 1..Len(cleanup) :
       /\ cleanup[i] = "cancelling"
       /\ \A j \in 1..(i - 1) : cleanup[j] = "done"
       /\ cleanup' = [cleanup EXCEPT ![i] = "done"]
  /\ last' = [op |-> "step"]
  /\ UNCHANGED <<queue, counter, size, subscribers, failed, metrics, filters, now,
                 cur, tasks, calls, produced, history, running, processing,
                 websocket_clients, notifying, agent>>

\* ------------------------------------------------------------ notification
\* add_websocket_client(client)
AddClient(client) ==
  /\ websocket_clients' = websocket_clients \cup {client}
  /\ last' = [op |-> "step"]
  /\ UNCHANGED <<queue, counter, size, subscribers, failed, metrics, filters, now,
                 cur, tasks, calls, produced, history, lifecycle, notifying, agent>>

\* remove_websocket_client(client)
RemoveClient(client) ==
  /\ websocket_clients' = websocket_clients \ {client}
  /\ last' = [op |-> "step"]
  /\ UNCHANGED <<queue, counter, size, subscribers, failed, metrics, filters, now,
                 cur, tasks, calls, produced, history, lifecycle, notifying, agent>>

\* what the call n returns to its caller
Returned(n) ==
  IF n.op = "send"
  THEN [op |-> "send", ret |-> TRUE, called |-> n.called]
  ELSE [op |-> "subscribe", arg |-> n.arg, ret |-> TRUE]

\* what the caller of n sees when the call raises
Raised(n, error) ==
  IF n.op = "send"
  THEN [op |-> "send_raised", error |-> error]
  ELSE [op |-> "subscribe_raised", arg |-> n.arg, error |-> error]

\* the awaited send_text of the call for message id returns or raises (the
\* client is then remembered as disconnected), and the for loop asks the set
\* iterator for the next client: the iterator raises RuntimeError, outside
\* the try, if the set's size is not what it was when the loop began; with
\* no client left the disconnected ones are removed and the call returns
\* True; otherwise send_text is awaited on the next client
NotifyStep(id, raised) ==
  \E n \in notifying :
    /\ n.id = id
    /\ LET seen == n.seen \cup {n.client}
           disconnected == IF raised THEN n.disconnected \cup {n.client}
                           ELSE n.disconnected
       IN IF Cardinality(websocket_clients) # n.used
          THEN /\ notifying' = notifying \ {n}
               /\ websocket_clients' = websocket_clients
               /\ last' = Raised(n, "RuntimeError")
          ELSE IF websocket_clients \ seen = {}
          THEN /\ websocket_clients' = websocket_clients \ disconnected
               /\ notifying' = notifying \ {n}
               /\ last' = Returned(n)
          ELSE /\ \E client \in websocket_clients \ seen :
                    notifying' = (notifying \ {n}) \cup
                                   {[n EXCEPT !.seen = seen, !.client = client,
                                              !.disconnected = disconnected]}
               /\ websocket_clients' = websocket_clients
               /\ last' = [op |-> "step"]
    /\ UNCHANGED <<queue, counter, size, subscribers, failed, metrics, filters, now,
                   cur, tasks, calls, produced, history, lifecycle, agent>>

\* ------------------------------------------------------------ Agent's callers
\* Agent(max_concurrent_tasks=n) is constructed
Construct(n) ==
  /\ agent' = NewAgent(n)
  /\ last' = [op |-> "construct"]
  /\ UNCHANGED <<queue, counter, size, subscribers, failed, metrics, filters, now,
                 cur, tasks, calls, produced, history, lifecycle,
                 websocket_clients, notifying>>

\* mutant: add_task without the limit
AddTaskUnlimited(task_id) ==
  /\ agent' = [agent EXCEPT !.current_tasks = Append(@, task_id), !.status = "busy"]
  /\ last' = [op |-> "add_task", arg |-> task_id, ret |-> TRUE]
  /\ UNCHANGED <<queue, counter, size, subscribers, failed, metrics, filters, now,
                 cur, tasks, calls, produced, history, lifecycle,
                 websocket_clients, notifying>>

\* agent.add_task(task_id)
AddTask(task_id) ==
  /\ agent' = add_task(agent, task_id).agent
  /\ last' = [op |-> "add_task", arg |-> task_id, ret |-> add_task(agent, task_id).ret]
  /\ UNCHANGED <<queue, counter, size, subscribers, failed, metrics, filters, now,
                 cur, tasks, calls, produced, history, lifecycle,
                 websocket_clients, notifying>>

\* agent.remove_task(task_id)
RemoveTask(task_id) ==
  /\ agent' = remove_task(agent, task_id)
  /\ last' = [op |-> "remove_task", arg |-> task_id, held |-> Holds(agent, task_id)]
  /\ UNCHANGED <<queue, counter, size, subscribers, failed, metrics, filters, now,
                 cur, tasks, calls, produced, history, lifecycle,
                 websocket_clients, notifying>>

\* agent.update_status(status)
UpdateStatus(status) ==
  /\ agent' = update_status(agent, status)
  /\ last' = [op |-> "update_status", arg |-> status]
  /\ UNCHANGED <<queue, counter, size, subscribers, failed, metrics, filters, now,
                 cur, tasks, calls, produced, history, lifecycle,
                 websocket_clients, notifying>>

\* ------------------------------------------------------------ specifications
\* The environment of each specification: what producers send and how far
\* the counters run.

\* the bus from construction, with messages that never expire and a clock
\* that stands still: a sweep would find nothing to remove
BusMsgs == {m \in [sender : Senders, recipient : {"a", "broadcast"},
                   priority : {2}, ttl : {<<>>}, ts : {now}] :
              m.sender = "a" => m.recipient = "broadcast"}

Next ==
  \/ /\ ~running
     /\ Start
  \/ /\ produced < MaxMsgs
     /\ counter < MaxCounter
     /\ \E m \in BusMsgs : Send(m.sender, m.recipient, m.priority, m.ttl, m.ts)
  \/ /\ produced < MaxMsgs
     /\ counter < MaxCounter
     /\ \E agent_id \in Agents : Subscribe(agent_id, "async")
  \/ \E agent_id \in Agents : Unsubscribe(agent_id)
  \/ Dequeue
  \/ \E recipient \in Agents : DeliverStart(recipient)
  \/ \E recipient \in Agents : DeliverComplete(recipient)
  \/ \E recipient \in Agents : DeliverFail(recipient)
  \/ RouteFinish
  \/ \E agent_id \in Agents \cup {"None"} :
       /\ counter + BacklogTotal(IF agent_id = "None" THEN Agents ELSE {agent_id})
            <= MaxCounter
       /\ Retry(agent_id)

Spec == Init /\ [][Next]_vars

\* the bus from construction with a clock and messages that expire
TtlMsgs == [sender : {"system"}, recipient : {"a"}, priority : {2},
            ttl : Ttls, ts : {now}]

NextTtl ==
  \/ /\ ~running
     /\ Start
  \/ /\ produced < MaxTtlMsgs
     /\ counter < MaxTtlCounter
     /\ \E m \in TtlMsgs : Send(m.sender, m.recipient, m.priority, m.ttl, m.ts)
  \/ /\ produced < MaxTtlMsgs
     /\ counter < MaxTtlCounter
     /\ \E agent_id \in Agents : Subscribe(agent_id, "async")
  \/ /\ now < MaxTime
     /\ Tick(MaxTime - now)
  \/ Dequeue
  \/ \E recipient \in Agents : DeliverStart(recipient)
  \/ \E recipient \in Agents : DeliverComplete(recipient)
  \/ \E recipient \in Agents : DeliverFail(recipient)
  \/ RouteFinish
  \/ Sweep
  \/ \E agent_id \in Agents \cup {"None"} :
       /\ counter + BacklogTotal(IF agent_id = "None" THEN Agents ELSE {agent_id})
            <= MaxTtlCounter
       /\ Retry(agent_id)

SpecTtl == Init /\ [][NextTtl]_vars

\* the queue alone: producers, filters, the processing loop with nobody
\* subscribed, the sweep
QueueMsgs == [sender : {"system"}, recipient : {"a"}, priority : Priorities,
              ttl : Ttls, ts : {0, now}]

NextQueue ==
  \/ /\ ~running
     /\ Start
  \/ /\ produced < MaxQueueMsgs
     /\ \E m \in QueueMsgs : Send(m.sender, m.recipient, m.priority, m.ttl, m.ts)
  \/ /\ Len(filters) < MaxFilters
     /\ \E kind \in FilterKinds : AddFilter(kind)
  \/ /\ now < MaxTime
     /\ Tick(MaxTime - now)
  \/ Dequeue
  \/ Sweep

SpecQueue == Init /\ [][NextQueue]_vars

\* the queue used on its own, with every kind of ttl: none, zero, negative,
\* positive
ExpiryTtls == {<<>>, <<0>>, <<0 - 1>>, <<1>>, <<2>>}

ExpiryMsgs == [sender : {"system"}, recipient : {"a"}, priority : {2},
               ttl : ExpiryTtls, ts : {now}]

NextExpiry ==
  \/ /\ ~running
     /\ Start
  \/ /\ produced < MaxPutMsgs
     /\ \E m \in ExpiryMsgs : Put(m.sender, m.recipient, m.priority, m.ttl, m.ts)
  \/ /\ now < MaxTime
     /\ Tick(MaxTime - now)
  \/ Dequeue
  \/ Sweep

SpecExpiry == Init /\ [][NextExpiry]_vars

\* producers and the processing loop with several filters registered
FilterMsgs == [sender : Senders, recipient : {"broadcast"}, priority : Priorities,
               ttl : {<<>>}, ts : {now}]

NextFilter ==
  \/ /\ ~running
     /\ Start
  \/ /\ produced < MaxFilterMsgs
     /\ \E m \in FilterMsgs : Send(m.sender, m.recipient, m.priority, m.ttl, m.ts)
  \/ /\ Len(filters) < MaxOrderedFilters
     /\ \E kind \in OrderedKinds : AddFilter(kind)
  \/ Dequeue

SpecFilter == Init /\ [][NextFilter]_vars

\* one subscriber, producers that send to it once it is registered, and a
\* caller of the statistics
StatMsgs == [sender : {"system"}, recipient : {"a"}, priority : {2},
             ttl : {<<>>}, ts : {now}]

NextStats ==
  \/ /\ ~running
     /\ Start
  \/ /\ produced < MaxStatMsgs
     /\ "a" \in subscribers
     /\ \E m \in StatMsgs : Send(m.sender, m.recipient, m.priority, m.ttl, m.ts)
  \/ /\ produced < MaxStatMsgs
     /\ "a" \notin subscribers
     /\ Subscribe("a", "async")
  \/ Dequeue
  \/ \E recipient \in Agents : DeliverStart(recipient)
  \/ \E recipient \in Agents : DeliverComplete(recipient)
  \/ \E recipient \in Agents : DeliverFail(recipient)
  \/ RouteFinish
  \/ GetStatistics

SpecStats == Init /\ [][NextStats]_vars

\* one address, subscribed with either kind of callback, and producers whose
\* messages carry the current or an earlier timestamp
HistMsgs == [sender : Senders, recipient : {"a"}, priority : {2},
             ttl : {<<>>}, ts : {0, now}]

NextHist ==
  \/ /\ ~running
     /\ Start
  \/ /\ produced < MaxHistMsgs
     /\ \E m \in HistMsgs : Send(m.sender, m.recipient, m.priority, m.ttl, m.ts)
  \/ /\ produced < MaxHistMsgs
     /\ \E callback \in Callbacks : Subscribe("a", callback)
  \/ /\ now < MaxTime
     /\ Tick(MaxTime - now)
  \/ Dequeue
  \/ \E recipient \in Agents : DeliverStart(recipient)
  \/ \E recipient \in Agents : DeliverComplete(recipient)
  \/ \E recipient \in Agents : DeliverFail(recipient)
  \/ RouteFinish

SpecHist == Init /\ [][NextHist]_vars

\* the same producers and a reader of the history, on a bus whose
\* processing loop has not been started
NextQuery ==
  \/ /\ produced < MaxHistMsgs
     /\ \E m \in HistMsgs : Send(m.sender, m.recipient, m.priority, m.ttl, m.ts)
  \/ /\ produced < MaxHistMsgs
     /\ Subscribe("a", "async")
  \/ /\ now < MaxTime
     /\ Tick(MaxTime - now)
  \/ \E agent_id \in HistoryAgents, message_type \in HistoryTypes,
        limit \in HistoryLimits, since \in HistorySince :
       GetHistory(agent_id, message_type, limit, since)

SpecQuery == Init /\ [][NextQuery]_vars

\* the router: messages to either address, subscribed or not, to everybody
\* and to a group, on a queue that producers can fill before anybody
\* subscribes
RouteMsgs == [sender : {"system"}, recipient : Recipients \cup GroupRecipients,
              priority : {2}, ttl : {<<>>}, ts : {now}]

NextRoute ==
  \/ /\ ~running
     /\ Start
  \/ /\ produced < MaxRouteMsgs
     /\ \E m \in RouteMsgs : Send(m.sender, m.recipient, m.priority, m.ttl, m.ts)
  \/ /\ produced < MaxRouteMsgs
     /\ \E agent_id \in Agents : Subscribe(agent_id, "async")
  \/ Dequeue
  \/ \E recipient \in Agents : DeliverStart(recipient)
  \/ \E recipient \in Agents : DeliverComplete(recipient)
  \/ \E recipient \in Agents : DeliverFail(recipient)
  \/ RouteFinish

SpecRoute == Init /\ [][NextRoute]_vars

\* an Agent and its callers: agents are constructed with a limit, tasks are
\* added and removed, and the status is set from outside
NextAgent ==
  \/ \E n \in 1..MaxLimit : Construct(n)
  \/ \E task_id \in TaskIds : AddTask(task_id)
  \/ \E task_id \in TaskIds : RemoveTask(task_id)
  \/ \E status \in SetStatuses : UpdateStatus(status)

SpecAgent == Init /\ [][NextAgent]_vars

\* producers on a bus whose notification clients connect, disconnect and
\* fail while sends are suspended in the notification
NotifyMsgs == [sender : {"system"}, recipient : {"a"}, priority : {2},
               ttl : {<<>>}, ts : {now}]

NextNotify ==
  \/ /\ produced < MaxNotifyMsgs
     /\ \E m \in NotifyMsgs : Send(m.sender, m.recipient, m.priority, m.ttl, m.ts)
  \/ \E client \in Clients : AddClient(client)
  \/ \E client \in Clients : RemoveClient(client)
  \/ \E id \in 1..MaxNotifyMsgs, raised \in BOOLEAN : NotifyStep(id, raised)

SpecNotify == Init /\ [][NextNotify]_vars

\* the bus started, stopped and started again, with one subscriber, a
\* producer that also sends a message with no recipient and one whose
\* timestamp is no date, and callbacks that may raise
LifeMsgs == {m \in [sender : {"system"}, recipient : {"a", "None"}, priority : {2},
                    ttl : {<<>>}, ts : {now, Unparsable}] :
               m.recipient = "None" => m.ts = now}

NextLife ==
  \/ /\ Len(processing) < MaxStarts
     /\ Start
  \/ Stop
  \/ ProcessingCancelled
  \/ CleanupCancelled
  \/ /\ produced < MaxLifeMsgs
     /\ \E m \in LifeMsgs : Send(m.sender, m.recipient, m.priority, m.ttl, m.ts)
  \/ /\ produced < MaxLifeMsgs
     /\ "a" \notin subscribers
     /\ Subscribe("a", "async")
  \/ Dequeue
  \/ \E recipient \in Agents : DeliverStart(recipient)
  \/ \E recipient \in Agents : DeliverComplete(recipient)
  \/ \E recipient \in Agents : DeliverFail(recipient)
  \/ RouteFinish
  \/ Sweep

SpecLife == Init /\ [][NextLife]_vars

\* the same bus on an event loop that runs every task that is ready: a
\* cancelled task is resumed and CancelledError is thrown into it
SpecLifeFair ==
  SpecLife /\ WF_vars(ProcessingCancelled) /\ WF_vars(CleanupCancelled)

\* one producer that sends and puts messages created at time 0, some with a
\* ttl, on a bus with a filter, a notification client and nobody taking
\* messages out
RejectMsgs == [sender : {"system"}, recipient : {"a"}, priority : Priorities,
               ttl : Ttls, ts : {0}]

NextReject ==
  \/ /\ produced < MaxRejectMsgs
     /\ notifying = {}
     /\ \E m \in RejectMsgs : Send(m.sender, m.recipient, m.priority, m.ttl, m.ts)
  \/ /\ produced < MaxRejectMsgs
     /\ \E m \in RejectMsgs : Put(m.sender, m.recipient, m.priority, m.ttl, m.ts)
  \/ /\ Len(filters) < MaxFilters
     /\ \E kind \in FilterKinds : AddFilter(kind)
  \/ /\ now < MaxTime
     /\ Tick(MaxTime - now)
  \/ AddClient("w1")
  \/ \E id \in 1..MaxRejectMsgs : NotifyStep(id, FALSE)

SpecReject == Init /\ [][NextReject]_vars

\* two subscribers that come and go, a producer of broadcasts and of
\* messages with no recipient, callbacks that may raise
CountMsgs == [sender : {"system"}, recipient : {"broadcast", "None"},
              priority : {2}, ttl : {<<>>}, ts : {now}]

NextCount ==
  \/ /\ ~running
     /\ Start
  \/ /\ produced < MaxCountMsgs
     /\ \E m \in CountMsgs : Send(m.sender, m.recipient, m.priority, m.ttl, m.ts)
  \/ /\ produced < MaxCountMsgs
     /\ \E agent_id \in Agents : Subscribe(agent_id, "async")
  \/ \E agent_id \in Agents : agent_id \in subscribers /\ Unsubscribe(agent_id)
  \/ Dequeue
  \/ \E recipient \in Agents : DeliverStart(recipient)
  \/ \E recipient \in Agents : DeliverComplete(recipient)
  \/ \E recipient \in Agents : DeliverFail(recipient)
  \/ RouteFinish

SpecCount == Init /\ [][NextCount]_vars

\* two subscribers whose callbacks raise, a producer, and a clock that
\* passes the retention window: it ticks by a second up to MaxTime seconds
\* after the start and after the hour, and once to the full hour
RetainMsgs == [sender : {"system"}, recipient : Agents, priority : {2},
               ttl : {<<>>}, ts : {now}]

NextRetain ==
  \/ /\ ~running
     /\ Start
  \/ /\ produced < MaxRetainMsgs
     /\ \E m \in RetainMsgs :
          /\ m.recipient \in subscribers
          /\ Send(m.sender, m.recipient, m.priority, m.ttl, m.ts)
  \/ /\ produced < MaxRetainMsgs
     /\ \E agent_id \in Agents : agent_id \notin subscribers /\ Subscribe(agent_id, "async")
  \/ /\ now % RetentionSeconds < MaxTime
     /\ Tick(1)
  \/ /\ now < RetentionSeconds
     /\ Tick(RetentionSeconds - now)
  \/ Dequeue
  \/ \E recipient \in Agents : DeliverStart(recipient)
  \/ \E recipient \in Agents : DeliverFail(recipient)
  \/ RouteFinish
  \/ Sweep

SpecRetain == Init /\ [][NextRetain]_vars

\* a bus that is started and never stopped, one subscriber, a producer of
\* messages of both priorities, some with a ttl, a clock, the processing
\* loop and the sweep
DrainMsgs == [sender : {"system"}, recipient : {"a"}, priority : Priorities,
              ttl : Ttls, ts : {now}]

NextDrain ==
  \/ /\ ~running
     /\ Start
  \/ /\ produced < MaxDrainMsgs
     /\ \E m \in DrainMsgs : Send(m.sender, m.recipient, m.priority, m.ttl, m.ts)
  \/ /\ produced < MaxDrainMsgs
     /\ "a" \notin subscribers
     /\ Subscribe("a", "async")
  \/ /\ now < MaxTime
     /\ Tick(MaxTime - now)
  \/ Dequeue
  \/ \E recipient \in Agents : DeliverStart(recipient)
  \/ \E recipient \in Agents : DeliverComplete(recipient)
  \/ \E recipient \in Agents : DeliverFail(recipient)
  \/ RouteFinish
  \/ Sweep

SpecDrain == Init /\ [][NextDrain]_vars

\* the same bus on an event loop that runs every task that is ready, with
\* callbacks that terminate: start() is run, the processing loop polls the
\* queue again after each sleep and each routing, a delivery task that was
\* created starts, an invoked callback returns or raises, and the gather
\* returns when its tasks are done
SpecDrainFair ==
  /\ SpecDrain
  /\ WF_vars(~running /\ Start)
  /\ WF_vars(Dequeue)
  /\ WF_vars(\E recipient \in Agents : DeliverStart(recipient))
  /\ WF_vars(\E recipient \in Agents : DeliverComplete(recipient) \/ DeliverFail(recipient))
  /\ WF_vars(RouteFinish)

\* one subscriber whose callback raises, a producer of low-priority
\* messages that can fill the queue, a filter that may be registered, and
\* retries of the backlog
RetryMsgs == [sender : {"system"}, recipient : {"a"}, priority : {1},
              ttl : {<<>>}, ts : {now}]

NextRetry ==
  \/ /\ ~running
     /\ Start
  \/ /\ produced < MaxRetryMsgs
     /\ counter < MaxRetryCounter
     /\ \E m \in RetryMsgs : Send(m.sender, m.recipient, m.priority, m.ttl, m.ts)
  \/ /\ produced < MaxRetryMsgs
     /\ counter < MaxRetryCounter
     /\ "a" \notin subscribers
     /\ Subscribe("a", "async")
  \/ /\ Len(filters) < MaxFilters
     /\ \E kind \in FilterKinds : AddFilter(kind)
  \/ Dequeue
  \/ \E recipient \in Agents : DeliverStart(recipient)
  \/ \E recipient \in Agents : DeliverComplete(recipient)
  \/ \E recipient \in Agents : DeliverFail(recipient)
  \/ RouteFinish
  \/ \E agent_id \in {"a", "None"} :
       /\ counter + BacklogTotal(IF agent_id = "None" THEN Agents ELSE {agent_id})
            <= MaxRetryCounter
       /\ Retry(agent_id)

SpecRetry == Init /\ [][NextRetry]_vars

\* producers on a bus whose filters may raise
RaiseMsgs == [sender : {"system"}, recipient : {"a"}, priority : Priorities,
              ttl : {<<>>}, ts : {now}]

NextRaise ==
  \/ /\ produced < MaxRaiseMsgs
     /\ \E m \in RaiseMsgs : Send(m.sender, m.recipient, m.priority, m.ttl, m.ts)
  \/ /\ Len(filters) < MaxOrderedFilters
     /\ \E kind \in RaisingKinds : AddFilter(kind)

SpecRaise == Init /\ [][NextRaise]_vars

\* ------------------------------------------------------------ claims
\* the entries a heap array holds
Entries(h) == {h[i] : i \in 1..Len(h)}

\* C1: every step of the processing loop that removes a message removes
\* exactly one entry, whose message has the highest priority in the queue and,
\* among the entries of that priority, the smallest insertion counter
C1_DequeueOrder ==
  [][Dequeue =>
       \E e \in Entries(queue) :
         /\ Entries(queue') = Entries(queue) \ {e}
         /\ Len(queue') = Len(queue) - 1
         /\ \A f \in Entries(queue) :
              /\ f[3].priority <= e[3].priority
              /\ f[3].priority = e[3].priority => e[2] <= f[2]]_vars

\* C1 witness: four messages were queued, none was expired or swept, one was
\* dequeued, and the three left hold both priorities: the one dequeued was
\* chosen among a tie of the higher priority and over a lower one
C1_Witness ==
  /\ counter = 4
  /\ size = 3
  /\ metrics.messages_expired = 0
  /\ \E e, f \in Entries(queue) : e[3].priority = 3 /\ f[3].priority = 1

\* C2: the queue never holds more than its capacity and its size counter is
\* the number of entries in the heap
C2_SizeWithinCapacity ==
  /\ size <= MaxSize
  /\ size = Len(queue)
  /\ Cardinality(Entries(queue)) = size

\* C2 witness: a send was rejected on a full queue
C2_Witness ==
  /\ last.op = "send"
  /\ last.ret = FALSE
  /\ size = MaxSize
  /\ filters = <<>>
  /\ metrics.messages_expired = 0

\* C3: a send returns false exactly when a registered filter rejects the
\* message, the message is expired, or the queue is at capacity; otherwise it
\* returns true and the message is in the queue
C3_SendResult ==
  [][\A m \in QueueMsgs :
       Send(m.sender, m.recipient, m.priority, m.ttl, m.ts) =>
         LET msg == NewMessage(produced + 1, m.sender, m.recipient, m.priority, m.ttl, m.ts)
             rejected == \/ \E i \in 1..Len(filters) : ~FilterAccepts(filters[i], msg)
                         \/ is_expired(msg, now)
                         \/ size >= MaxSize
         IN /\ last'.ret = ~rejected
            /\ last'.ret => \E e \in Entries(queue') : e[3] = msg
            /\ ~last'.ret => queue' = queue]_vars

\* C3 witness: a filter is registered, a send was rejected, and the last send
\* was accepted into a queue that holds another message
C3_Witness ==
  /\ last.op = "send"
  /\ last.ret = TRUE
  /\ filters # <<>>
  /\ produced > counter
  /\ size >= 2

\* the message the next get() returns
Popped == get(Q).msg

\* C4: the processing loop dequeues for delivery only messages that are not
\* expired at that moment, so no callback is invoked for an expired one
C4_NoExpiredDelivery ==
  [][(Dequeue /\ cur' # NoMsg) => ~is_expired(cur', now)]_vars

\* C5 as stated: when the routing of a broadcast ends, every address
\* subscribed when it was routed, other than the sender, was invoked once
C5_Original ==
  [][(RouteFinish /\ cur.recipient = "broadcast") =>
       \A a \in Agents : calls[a] = IF a \in DOMAIN tasks THEN 1 ELSE 0]_vars

\* C5 amended: a broadcast is routed to the addresses subscribed at that
\* moment other than the sender; when its routing ends the callback of each
\* of them that was still subscribed when its delivery started was invoked
\* exactly once, and no other callback (the sender's included) was invoked
C5_Broadcast ==
  [][/\ (Dequeue /\ Popped.recipient = "broadcast") =>
          /\ DOMAIN tasks' = subscribers \ {Popped.sender}
          /\ \A a \in Agents : calls'[a] = 0
     /\ \A a \in Agents :
          (DeliverStart(a) /\ cur.recipient = "broadcast") =>
             calls'[a] = calls[a] + (IF a \in subscribers THEN 1 ELSE 0)
     /\ (RouteFinish /\ cur.recipient = "broadcast") =>
          \A a \in Agents :
            calls[a] = IF a \in DOMAIN tasks /\ tasks[a] # "nocb" THEN 1 ELSE 0]_vars

\* C5 witness: a broadcast whose sender is subscribed has been delivered to
\* another subscriber, once, and not to the sender
C5_Witness ==
  /\ cur # NoMsg
  /\ cur.recipient = "broadcast"
  /\ cur.sender \in subscribers
  /\ calls[cur.sender] = 0
  /\ \E r \in DOMAIN tasks : tasks[r] = "ok" /\ calls[r] = 1

\* C6: once a recipient's callback has raised, every other delivery of the
\* message can still start and complete; the raise changes no other delivery;
\* every completion is counted in messages_delivered when the routing ends
C6_FailureIsolated ==
  /\ [](\A r \in DOMAIN tasks :
          tasks[r] = "raised" =>
            \A o \in DOMAIN tasks \ {r} :
              /\ tasks[o] = "pending" => ENABLED DeliverStart(o)
              /\ tasks[o] = "running" => ENABLED DeliverComplete(o))
  /\ [][\A r \in Agents :
          DeliverFail(r) => \A o \in DOMAIN tasks \ {r} : tasks'[o] = tasks[o]]_vars
  /\ [][RouteFinish =>
          metrics'.messages_delivered = metrics.messages_delivered
             + Cardinality({o \in DOMAIN tasks : tasks[o] = "ok"})]_vars

\* C6 witness: of two recipients of one message, one callback raised and the
\* other completed
C6_Witness ==
  \E r, o \in DOMAIN tasks : tasks[r] = "raised" /\ tasks[o] = "ok"

\* C7: a raising callback appends the message once to its recipient's
\* backlog and leaves the queue alone; the callback was invoked once and its
\* delivery cannot start again; the failure is counted when the routing ends
C7_FailureRecorded ==
  /\ [][\A r \in Agents :
          DeliverFail(r) =>
            /\ failed'[r] = Append(IF r \in DOMAIN failed THEN failed[r] ELSE <<>>, cur)
            /\ \A a \in DOMAIN failed \ {r} : failed'[a] = failed[a]
            /\ queue' = queue
            /\ calls' = calls
            /\ calls[r] = 1
            /\ ~(ENABLED DeliverStart(r))']_vars
  /\ [][RouteFinish =>
          metrics'.messages_failed = metrics.messages_failed
             + Cardinality({o \in DOMAIN tasks : tasks[o] # "ok"})]_vars

\* C7 witness: a callback raised and its message is the recipient's backlog
C7_Witness ==
  \E r \in DOMAIN tasks :
    tasks[r] = "raised" /\ r \in DOMAIN failed /\ failed[r] = <<cur>>

\* C8: unsubscribing a subscribed address that has a backlog removes the
\* address from the registry and its backlog from the store, and a
\* retry_failed_deliveries of that address right after returns 0 and
\* enqueues nothing
C8_UnsubscribePurges ==
  /\ [][\A x \in Agents :
          (Unsubscribe(x) /\ x \in subscribers /\ x \in DOMAIN failed /\ failed[x] # <<>>) =>
            /\ x \notin subscribers'
            /\ x \notin DOMAIN failed'
            /\ \A a \in DOMAIN failed \ {x} : a \in DOMAIN failed' /\ failed'[a] = failed[a]]_vars
  /\ [][\A x \in Agents :
          (last.op = "unsubscribe" /\ last.arg = x /\ last.was /\ last.had /\ Retry(x)) =>
            /\ last'.ret = 0
            /\ queue' = queue
            /\ counter' = counter
            /\ x \notin subscribers']_vars

\* C8 witness: a subscribed address with a backlog has just been unsubscribed
C8_Witness ==
  /\ last.op = "unsubscribe"
  /\ last.was
  /\ last.had
  /\ ENABLED Retry(last.arg)

\* the entries put since the put counter stood at c, in put order
RECURSIVE PutSince(_, _, _)
PutSince(h, c, k) ==
  IF \E e \in Entries(h) : e[2] = c + k
  THEN <<(CHOOSE e \in Entries(h) : e[2] = c + k)[3]>> \o PutSince(h, c, k + 1)
  ELSE <<>>

\* the messages of the backlogs of the addresses order[1], order[2], ... that
\* have not expired, in that order
RECURSIVE Retryable(_)
Retryable(order) ==
  IF order = <<>> THEN <<>>
  ELSE SelectSeq(failed[Head(order)], LAMBDA m : ~is_expired(m, now))
         \o Retryable(Tail(order))

\* C9: retry_failed_deliveries empties the backlog of the given address (of
\* every address with a backlog when none is given) and leaves the others;
\* the messages it enqueues are the non-expired messages of those backlogs,
\* in backlog order, as far as the queue has room; it returns their number
C9_RetryResubmits ==
  [][(last'.op = "retry" /\ Retry(last'.arg)) =>
         LET x == last'.arg
             targets == IF x = "None" THEN DOMAIN failed ELSE {x} \cap DOMAIN failed
             new == PutSince(queue', counter, 0)
         IN /\ DOMAIN failed' = DOMAIN failed
            /\ \A a \in targets : failed'[a] = <<>>
            /\ \A a \in DOMAIN failed \ targets : failed'[a] = failed[a]
            /\ \E order \in KeyOrders(targets) :
                 LET all == Retryable(order)
                     room == MaxSize - size
                 IN new = SubSeq(all, 1, IF Len(all) < room THEN Len(all) ELSE room)
            /\ last'.ret = Len(new)
            /\ counter' = counter + Len(new)
            /\ size' = size + Len(new)]_vars

\* C9 witness: a retry of every address found three failed messages in two
\* backlogs, re-enqueued two and dropped the expired one
C9_Witness ==
  /\ last.op = "retry"
  /\ last.arg = "None"
  /\ last.ret = 2
  /\ size = 2
  /\ metrics.messages_failed = 3
  /\ metrics.messages_sent = 5
  /\ \A a \in Agents : a \in DOMAIN failed /\ failed[a] = <<>>

\* C10: no backlog holds a message twice, nor more messages than were sent
C10_NoDuplicates ==
  \A a \in DOMAIN failed :
    /\ Len(failed[a]) <= produced
    /\ \A i, j \in 1..Len(failed[a]) : failed[a][i].id = failed[a][j].id => i = j

\* the elements of a sequence
Range(q) == {q[i] : i \in 1..Len(q)}

\* C11: a backlog message that is expired when retry_failed_deliveries runs
\* leaves the backlog and is not enqueued; the count returned is the number
\* of messages enqueued, none of them expired; messages_expired does not
\* change and messages_sent grows by the count returned; a retry that finds
\* only expired messages changes neither the queue, a counter nor the history
C11_ExpiredDropped ==
  [][(last'.op = "retry" /\ Retry(last'.arg)) =>
         LET x == last'.arg
             targets == IF x = "None" THEN DOMAIN failed ELSE {x} \cap DOMAIN failed
             retried == UNION {Range(failed[a]) : a \in targets}
             expired == {m \in retried : is_expired(m, now)}
             new == PutSince(queue', counter, 0)
         IN /\ \A m \in expired :
                 /\ \A a \in targets : m \notin Range(failed'[a])
                 /\ m \notin Range(new)
            /\ Entries(queue') = Entries(queue) \cup
                                   {<<HeapPriority(new[i]), counter + i - 1, new[i]>> :
                                      i \in 1..Len(new)}
            /\ last'.ret = Len(new)
            /\ metrics'.messages_expired = metrics.messages_expired
            /\ metrics'.messages_sent = metrics.messages_sent + last'.ret
            /\ expired = retried =>
                 /\ last'.ret = 0
                 /\ queue' = queue
                 /\ metrics' = metrics
                 /\ history' = history]_vars

\* C11 witness: a retry returned fewer messages than the backlogs held, with
\* no filter registered and room left in the queue: the difference expired
C11_Witness ==
  /\ last.op = "retry"
  /\ last.had > last.ret
  /\ filters = <<>>
  /\ size < MaxSize

\* the messages of a heap array in the order successive get() calls return them
RECURSIVE Drain(_)
Drain(h) ==
  IF h = <<>> THEN <<>>
  ELSE LET p == heappop(h) IN <<p.item[3]>> \o Drain(p.heap)

\* C12: a sweep of the queue removes exactly the entries whose message is
\* expired at that moment and returns their number; the messages left are
\* dequeued in the order they would have been dequeued in before, which is
\* by priority and then by insertion
C12_ClearExpired ==
  [][Sweep =>
       LET keep(m) == ~is_expired(m, now)
       IN /\ Entries(queue') = {e \in Entries(queue) : keep(e[3])}
          /\ Len(queue') = Cardinality(Entries(queue'))
          /\ size' = Len(queue')
          /\ last'.ret = Len(queue) - Len(queue')
          /\ Drain(queue') = SelectSeq(Drain(queue), keep)
          /\ \A i, j \in 1..Len(queue') :
               i < j =>
                 LET x == CHOOSE e \in Entries(queue') : e[3] = Drain(queue')[i]
                     y == CHOOSE e \in Entries(queue') : e[3] = Drain(queue')[j]
                 IN Lt(x, y)]_vars

\* C12 witness: a sweep removed one of three messages and left two of
\* different priorities, the lower one inserted first
C12_Witness ==
  /\ last.op = "sweep"
  /\ last.ret = 1
  /\ counter = 3
  /\ size = 2
  /\ \E e, f \in Entries(queue) :
       /\ e[2] = 0
       /\ f[2] = 2
       /\ e[3].priority < f[3].priority

\* a ttl that is zero or negative
NonPositive(ttl) == ttl # <<>> /\ ttl[1] <= 0

\* C13: put accepts a message whose ttl is zero or negative whenever the
\* queue has room, and a sweep that runs after the message's creation instant
\* removes it and counts it
C13_ZeroTtlSwept ==
  [][/\ \A m \in ExpiryMsgs :
          (Put(m.sender, m.recipient, m.priority, m.ttl, m.ts) /\ NonPositive(m.ttl)) =>
             last'.ret = (size < MaxSize)
     /\ Sweep =>
          LET due == {e \in Entries(queue) : NonPositive(e[3].ttl) /\ now > e[3].ts}
          IN /\ Entries(queue') \cap due = {}
             /\ last'.ret >= Cardinality(due)]_vars

\* C14: is_expired is false at every time for a message without a ttl; for a
\* message with a ttl of t seconds (t not negative, or the two cases collide)
\* it is false at the creation time and true once more than t seconds have
\* passed since the timestamp
C14_IsExpired ==
  \A e \in Entries(queue) :
    LET m == e[3]
    IN /\ m.ttl = <<>> => ~is_expired(m, now)
       /\ (m.ttl # <<>> /\ m.ttl[1] >= 0) =>
            /\ now = m.ts => ~is_expired(m, now)
            /\ now - m.ts > m.ttl[1] => is_expired(m, now)

RatIs(r, k) == r.den # 0 /\ r.num = k * r.den

\* C16: whenever the statistics are read, success_rate is messages_delivered
\* / max(1, messages_sent) * 100 of the counters as they then stand: 0 when
\* nothing was sent, 70 when 10 were sent and 7 of them delivered
C16_SuccessRate ==
  [][GetStatistics =>
       LET rate == last'.ret.success_rate
       IN /\ rate.den > 0
          /\ rate.num * Max1(metrics.messages_sent)
               = metrics.messages_delivered * 100 * rate.den
          /\ metrics.messages_sent = 0 => RatIs(rate, 0)
          /\ (metrics.messages_sent = 10 /\ metrics.messages_delivered = 7) =>
               RatIs(rate, 70)]_vars

\* C16 witness: the statistics were read after 10 messages were sent, 7
\* delivered and 3 failed, and gave 70
C16_Witness ==
  /\ last.op = "stats"
  /\ metrics.messages_sent = 10
  /\ metrics.messages_delivered = 7
  /\ metrics.messages_failed = 3
  /\ RatIs(last.ret.success_rate, 70)

\* C17: reading the statistics changes neither the queue, the registry, the
\* failed-delivery store and its keys, the history nor a counter, and a
\* second read right after the first returns the same values
C17_StatisticsPure ==
  [][GetStatistics =>
       /\ UNCHANGED <<queue, counter, size, subscribers, failed, metrics,
                      filters, history, cur, tasks>>
       /\ DOMAIN failed' = DOMAIN failed
       /\ last.op = "stats" => last'.ret = last.ret]_vars

\* C17 witness: the statistics were read while a subscriber had no backlog
\* key, a message was queued and the history was not empty
C17_Witness ==
  /\ last.op = "stats"
  /\ subscribers # {}
  /\ subscribers \ DOMAIN failed # {}
  /\ queue # <<>>
  /\ history # <<>>
  /\ last.ret.failed_delivery_queues = 0

\* C18: the history never holds more than its capacity; a step that puts a
\* message on the queue (an accepted send) appends that message to the
\* history, dropping the oldest entry of a full history; no other step, a
\* delivery's completion or failure included, changes the history
C18_HistoryBounded ==
  /\ [](Len(history) <= MaxHistory)
  /\ [][IF counter' # counter
         THEN /\ counter' = counter + 1
              /\ history' = Append(IF Len(history) < MaxHistory THEN history
                                    ELSE Tail(history),
                                   PutSince(queue', counter, 0)[1])
         ELSE history' = history]_vars

\* C18 witness: the history is full, its oldest entry is not the first
\* message that was accepted, and a delivery has failed
C18_Witness ==
  /\ Len(history) = MaxHistory
  /\ history[1].id > 1
  /\ metrics.messages_sent > MaxHistory
  /\ metrics.messages_failed > 0

\* C19: get_message_history returns at most limit messages, all of them in
\* the history and matching every argument given (the address is the sender
\* or the recipient, the type is equal, the timestamp is later than since),
\* latest timestamp first; a matching message is left out only when limit
\* messages are returned, none of them older than it
C19_HistoryQuery ==
  [][(/\ last'.op = "history"
      /\ GetHistory(last'.agent_id, last'.message_type, last'.limit, last'.since)) =>
         LET agent_id == last'.agent_id
             message_type == last'.message_type
             limit == last'.limit
             since == last'.since
             ret == last'.ret
             Matches(msg) ==
               /\ agent_id # "None" => (msg.sender = agent_id \/ msg.recipient = agent_id)
               /\ message_type # "None" => msg.message_type = message_type
               /\ since # <<>> => msg.ts > since[1]
             matching == {i \in 1..Len(history) : Matches(history[i])}
         IN /\ Len(ret) <= limit
            /\ \A i \in 1..Len(ret) : ret[i] \in Range(history) /\ Matches(ret[i])
            /\ \A i, j \in 1..Len(ret) : i < j => (ret[i] # ret[j] /\ ret[i].ts >= ret[j].ts)
            /\ Len(ret) = (IF Cardinality(matching) < limit THEN Cardinality(matching)
                           ELSE limit)
            /\ \A i \in matching :
                 history[i] \notin Range(ret) =>
                   \A j \in 1..Len(ret) : ret[j].ts >= history[i].ts]_vars

\* C19 witness: a query with a limit of 1 returned the later of two matching
\* messages, the one that was appended first
C19_Witness ==
  /\ last.op = "history"
  /\ last.limit = 1
  /\ last.agent_id = "a"
  /\ Len(history) = 2
  /\ history[1].recipient = "a"
  /\ history[2].recipient = "a"
  /\ history[1].ts > history[2].ts
  /\ last.ret = <<history[1]>>

\* C20: subscribe with a callback that is not an async function fails with
\* an error and changes neither the registry, the subscriber count, the
\* queue nor a counter
C20_SubscribeRejects ==
  [][\A agent_id \in Agents :
       Subscribe(agent_id, "sync") =>
         /\ last'.op = "subscribe_error"
         /\ last'.error = "ValueError"
         /\ UNCHANGED <<subscribers, metrics, queue, counter, size, failed,
                        history, produced>>]_vars

\* C20 witness: an address that is not registered was refused, on a bus that
\* has a message queued
C20_Witness ==
  /\ last.op = "subscribe_error"
  /\ last.error = "ValueError"
  /\ last.arg \notin subscribers
  /\ queue # <<>>
\* C21: when subscribe(address, callback) returns, one status-update message
\* addressed to that address, the one this call created, is in the queue
C21_WelcomeEnqueued ==
  [][last'.op = "subscribe" =>
       \E e \in Entries(queue') :
         /\ e[3].id = produced'
         /\ e[3].message_type = "status_update"
         /\ e[3].recipient = last'.arg]_vars

\* C22: when the loop takes a message that is not a broadcast, the router
\* resolves a subscribed address to that address alone, and an unsubscribed
\* address or a group to nobody; one delivery task is created per resolved
\* address, and with nobody resolved the message is finished with no task
\* and no callback invoked
C22_DirectResolution ==
  [][Dequeue =>
       LET m == Popped
           resolved == determine_recipients(m, subscribers)
       IN m.recipient \notin {"broadcast", "None"} =>
            /\ (m.recipient \in subscribers /\ ~IsGroup(m.recipient)) =>
                  resolved = {m.recipient}
            /\ (m.recipient \notin subscribers \/ IsGroup(m.recipient)) =>
                  resolved = {}
            /\ DOMAIN tasks' = resolved
            /\ \A r \in resolved : tasks'[r] = "pending"
            /\ \A a \in Agents : calls'[a] = 0
            /\ resolved = {} =>
                  /\ cur' = NoMsg
                  /\ ~(ENABLED (\E recipient \in Agents : DeliverStart(recipient)))']_vars

\* C22 witness: a message to a group and a message to an address that is not
\* subscribed were accepted and have left the queue while somebody was
\* subscribed; the only delivery counted is another message's
C22_Witness ==
  /\ \E i, j \in 1..Len(history) :
       /\ IsGroup(history[i].recipient)
       /\ history[j].recipient \in Agents \ subscribers
  /\ subscribers # {}
  /\ queue = <<>>
  /\ cur = NoMsg
  /\ metrics.messages_sent = 3
  /\ metrics.messages_delivered = 1
  /\ metrics.messages_failed = 0

\* C23: when the loop takes a direct message whose recipient is not
\* subscribed, messages_failed goes up by one
C23_UnsubscribedCountsFailed ==
  [][(Dequeue /\ Popped.recipient \in Agents \ subscribers) =>
       metrics'.messages_failed = metrics.messages_failed + 1]_vars

\* C29: add_task on an agent that holds max_concurrent_tasks tasks returns
\* False and leaves current_tasks as it is; otherwise it returns True and
\* appends the task; the agent never holds more than max_concurrent_tasks
C29_AddTaskLimit ==
  /\ [](Len(agent.current_tasks) <= agent.max_concurrent_tasks)
  /\ [][\A task_id \in TaskIds :
          AddTask(task_id) =>
            IF Len(agent.current_tasks) = agent.max_concurrent_tasks
            THEN /\ last'.ret = FALSE
                 /\ agent'.current_tasks = agent.current_tasks
            ELSE /\ last'.ret = TRUE
                 /\ agent'.current_tasks = Append(agent.current_tasks, task_id)]_vars

\* C29 witness: add_task has just returned False on an agent that holds as
\* many tasks as the default limit allows, one task id twice
C29_Witness ==
  /\ last.op = "add_task"
  /\ last.ret = FALSE
  /\ agent.max_concurrent_tasks = DefaultMaxTasks
  /\ Len(agent.current_tasks) = DefaultMaxTasks
  /\ \E i, j \in 1..Len(agent.current_tasks) :
       i # j /\ agent.current_tasks[i] = agent.current_tasks[j]

\* C30: after an add_task that returned True, and after a remove_task of a
\* task the agent held, the status is busy if the agent holds a task and idle
\* if it holds none, whatever the status was before
C30_StatusFollowsTasks ==
  [][\A task_id \in TaskIds :
       /\ (AddTask(task_id) /\ last'.ret) =>
            agent'.status = IF agent'.current_tasks # <<>> THEN "busy" ELSE "idle"
       /\ (RemoveTask(task_id) /\ Holds(agent, task_id)) =>
            agent'.status = IF agent'.current_tasks # <<>> THEN "busy" ELSE "idle"]_vars

\* C30 witness: the last task was removed from an agent and the agent is idle
C30_Witness ==
  /\ last.op = "remove_task"
  /\ last.held
  /\ agent.current_tasks = <<>>
  /\ agent.status = "idle"

\* C27: every call of send_message completes by returning True or False,
\* whether it returns at once or after it was suspended in the notification
C27_SendNeverRaises ==
  [][(\/ Cardinality(notifying') < Cardinality(notifying)
      \/ (produced' # produced /\ notifying' = notifying)) =>
       (last'.op = "send" /\ last'.ret \in BOOLEAN)]_vars

\* C24: the queue is drained and callbacks are invoked only while the bus is
\* running; before start() and after stop() an accepted send still adds its
\* message to the queue, which nothing takes from; and when start() finds
\* messages queued, the loop it creates can take them
C24_OnlyWhileRunning ==
  /\ [](~running => ~ENABLED (Dequeue \/ \E r \in Agents : DeliverStart(r)))
  /\ [][/\ (size' < size \/ \E a \in Agents : calls'[a] > calls[a]) => running
        /\ (~running /\ last'.op = "send" /\ produced' # produced) =>
             /\ last'.ret = (size < MaxSize)
             /\ last'.ret => /\ size' = size + 1
                             /\ \E e \in Entries(queue') : e[3].id = produced'
        /\ (~running /\ running' /\ queue # <<>>) => (ENABLED Dequeue)']_vars

\* C24 witness: the bus delivered a message, was stopped, its loops have
\* ended, and two messages sent since are in the queue
C24_Witness ==
  /\ ~running
  /\ processing = <<"done">>
  /\ cleanup = <<"done">>
  /\ metrics.messages_delivered = 1
  /\ last.op = "send"
  /\ last.ret
  /\ size = 2

\* every task start() ever created is done
Terminated ==
  /\ \A i \in 1..Len(processing) : processing[i] = "done"
  /\ \A i \in 1..Len(cleanup) : cleanup[i] = "done"

\* C25: once the bus is stopped, both loops end unless start() is called
\* again, and while it is stopped the loop takes nothing from the queue
C25_LoopsTerminate ==
  /\ (~running) ~> (running \/ Terminated)
  /\ [](~running => ~ENABLED Dequeue)

\* C25 witness: the bus was started and stopped twice, messages are queued,
\* and every loop task has ended
C25_Witness ==
  /\ ~running
  /\ Len(processing) = MaxStarts
  /\ Terminated
  /\ queue # <<>>

\* C26: a step in which a callback raises, the router raises or the sweep
\* raises leaves both loop tasks as they are and the bus running: afterwards
\* the sweep can run again and the loop can take the next message as soon as
\* the routing of the current one has ended
C26_LoopsSurvive ==
  [][(\/ last'.op \in {"route_error", "sweep_error"}
      \/ \E r \in Agents : DeliverFail(r)) =>
       /\ running /\ running'
       /\ processing' = processing
       /\ cleanup' = cleanup
       /\ (ENABLED Sweep)'
       /\ (queue' # <<>> /\ cur' = NoMsg) => (ENABLED Dequeue)'
       /\ cur' # NoMsg =>
            (ENABLED (RouteFinish \/ \E r \in Agents :
                        (DeliverStart(r) \/ DeliverComplete(r) \/ DeliverFail(r))))']_vars

\* C26 witness: a callback raised, the router raised on a message with no
\* recipient and the sweep has just raised on the backlog; a message sent
\* since is queued and both loops are alive
C26_Witness ==
  /\ last.op = "sweep_error"
  /\ metrics.messages_failed = 2
  /\ \E a \in DOMAIN failed : \E i \in 1..Len(failed[a]) : failed[a][i].ts = Unparsable
  /\ ProcessingAlive
  /\ CleanupAlive

\* C28: the loop takes a message from the queue only when no delivery task
\* of an earlier message is left, and the delivery tasks that exist are those
\* of the one message being routed, each for a recipient the router resolved
C28_OneMessageInFlight ==
  /\ [](tasks # EmptyMap => cur # NoMsg)
  /\ [](cur # NoMsg =>
          \A r \in DOMAIN tasks : cur.recipient \in {r, "broadcast"})
  /\ [][size' < size => (cur = NoMsg /\ tasks = EmptyMap)]_vars

\* C28 witness: two callbacks of one broadcast are in flight and another
\* message waits in the queue
C28_Witness ==
  /\ cur # NoMsg
  /\ cur.recipient = "broadcast"
  /\ \E r, o \in DOMAIN tasks : r # o /\ tasks[r] = "running" /\ tasks[o] = "running"
  /\ queue # <<>>

\* C31: a send that returns False, and a put that returns False, leave the
\* queue, the insertion counter, the history and messages_sent as they were
\* and suspend in no notification; a put changes no counter at all; a
\* rejected send adds one to messages_expired when the filters let through a
\* message whose ttl has run out, and otherwise changes no counter
C31_RejectionFrame ==
  [][\A m \in RejectMsgs :
       /\ (Send(m.sender, m.recipient, m.priority, m.ttl, m.ts)
             /\ last'.op = "send" /\ ~last'.ret) =>
            /\ queue' = queue /\ counter' = counter /\ size' = size
            /\ history' = history
            /\ notifying' = notifying
            /\ metrics' =
                 IF /\ \A i \in 1..Len(filters) : filters[i] = "drop_low" => m.priority >= 2
                    /\ m.ttl # <<>> /\ now - m.ts > m.ttl[1]
                 THEN [metrics EXCEPT !.messages_expired = @ + 1]
                 ELSE metrics
       /\ (Put(m.sender, m.recipient, m.priority, m.ttl, m.ts) /\ ~last'.ret) =>
            /\ queue' = queue /\ counter' = counter /\ size' = size
            /\ history' = history
            /\ notifying' = notifying
            /\ metrics' = metrics]_vars

\* C31 witness: with a client connected and a filter registered, a send was
\* rejected by the full queue after another was rejected as expired
C31_Witness ==
  /\ last.op = "send"
  /\ ~last.ret
  /\ size = MaxSize
  /\ websocket_clients # {}
  /\ filters # <<>>
  /\ metrics.messages_expired = 1
  /\ metrics.messages_sent = MaxSize
  /\ produced = MaxRejectMsgs

\* C32 as stated: the routing of one message with k delivery tasks, s of
\* them completed, adds s to messages_delivered and k - s to
\* messages_failed when the last task is done, and neither counter changes
\* at any other step
C32_Original ==
  [][/\ (cur # NoMsg /\ cur' = NoMsg) =>
          LET k == Cardinality(DOMAIN tasks)
              s == Cardinality({r \in DOMAIN tasks : tasks[r] = "ok"})
          IN /\ metrics'.messages_delivered = metrics.messages_delivered + s
             /\ metrics'.messages_failed = metrics.messages_failed + (k - s)
     /\ (cur = NoMsg \/ cur' # NoMsg) =>
          /\ metrics'.messages_delivered = metrics.messages_delivered
          /\ metrics'.messages_failed = metrics.messages_failed]_vars

\* C32: the routing of one message whose k resolved recipients are
\* subscribed (for a broadcast, the subscribers other than the sender) has
\* k delivery tasks until it ends; when the last is done, s of them
\* completed, it adds s to messages_delivered and k - s to messages_failed;
\* the only other change of either counter is messages_failed + 1 for a
\* dequeued message whose routing raises before any delivery
C32_CountsPerMessage ==
  [][/\ (cur = NoMsg /\ cur' # NoMsg /\ cur'.recipient = "broadcast") =>
          DOMAIN tasks' = subscribers \ {cur'.sender}
     /\ (cur # NoMsg /\ cur' # NoMsg) => DOMAIN tasks' = DOMAIN tasks
     /\ (cur # NoMsg /\ cur' = NoMsg) =>
          LET k == Cardinality(DOMAIN tasks)
              s == Cardinality({r \in DOMAIN tasks : tasks[r] = "ok"})
          IN /\ metrics'.messages_delivered = metrics.messages_delivered + s
             /\ metrics'.messages_failed = metrics.messages_failed + (k - s)
     /\ (cur = NoMsg \/ cur' # NoMsg) =>
          /\ metrics'.messages_delivered = metrics.messages_delivered
          /\ IF last'.op = "route_error" /\ size' = size - 1
             THEN metrics'.messages_failed = metrics.messages_failed + 1
             ELSE metrics'.messages_failed = metrics.messages_failed]_vars

\* C32 witness: both welcome messages were delivered, a broadcast reached
\* one of its two recipients and failed at the other, and a message with no
\* recipient was counted as one failure
C32_Witness ==
  /\ cur = NoMsg
  /\ queue = <<>>
  /\ produced = MaxCountMsgs
  /\ metrics.messages_delivered = 3
  /\ metrics.messages_failed = 2
  /\ \E a \in Agents : a \in DOMAIN failed /\ Len(failed[a]) = 1

\* C33: a sweep iteration that completes leaves every address its backlog,
\* holding exactly the messages it held before that were created less than
\* the retention window (one hour) before the sweep, in the order they had;
\* the messages created an hour or more before are gone
C33_Retention ==
  [][last'.op = "sweep" =>
       /\ DOMAIN failed' = DOMAIN failed
       /\ \A a \in DOMAIN failed :
            failed'[a] = SelectSeq(failed[a], LAMBDA m : now - m.ts < RetentionSeconds)]_vars

\* C33 witness: a sweep left a backlog the two younger of its three
\* messages and emptied the other address's backlog
C33_Witness ==
  /\ last.op = "sweep"
  /\ now >= RetentionSeconds
  /\ metrics.messages_failed = MaxRetainMsgs
  /\ \E a, b \in DOMAIN failed :
       /\ Len(failed[a]) = 2
       /\ failed[a][1].ts < failed[a][2].ts
       /\ failed[a][2].ts < RetentionSeconds
       /\ failed[b] = <<>>

\* the message with this id is in the queue
InQueue(id) == \E e \in Entries(queue) : e[3].id = id

\* C34: on a bus that stays running, with callbacks that terminate and a
\* bounded number of sends, every message in the queue eventually leaves it;
\* a message leaves the queue only by being dequeued by the processing loop,
\* which then routes it, or by a sweep that finds it expired
C34_QueueDrains ==
  /\ \A id \in 1..MaxDrainMsgs : InQueue(id) ~> ~InQueue(id)
  /\ [][\A e \in Entries(queue) :
          (InQueue(e[3].id) /\ ~InQueue(e[3].id)') =>
             \/ /\ Dequeue
                /\ Popped.id = e[3].id
                /\ \/ cur' = Popped
                   \/ cur' = NoMsg /\ Popped.recipient \notin subscribers
             \/ /\ last'.op = "sweep"
                /\ e[3].ttl # <<>>
                /\ now - e[3].ts > e[3].ttl[1]]_vars

\* C34 witness: three messages were enqueued; the sweep evicted one that had
\* expired, the loop dequeued the others and the queue is empty
C34_Witness ==
  /\ queue = <<>>
  /\ cur = NoMsg
  /\ produced = MaxDrainMsgs
  /\ metrics.messages_sent = MaxDrainMsgs
  /\ metrics.messages_expired = 1
  /\ metrics.messages_delivered + metrics.messages_failed = MaxDrainMsgs - 1

\* C35: every address with a non-empty failed-delivery backlog is subscribed
C35_BacklogOnlySubscribed ==
  \A a \in DOMAIN failed : failed[a] # <<>> => a \in subscribers

\* C36: every message that a retry of address X's backlog puts in the queue
\* is addressed to X alone (to an address whose backlog held it when every
\* backlog is retried), so that routing it invokes no other subscriber
C36_RetryToAddressOnly ==
  [][last'.op = "retry" =>
       \A e \in Entries(queue') \ Entries(queue) :
         IF last'.arg = "None"
         THEN e[3].recipient \in {a \in DOMAIN failed : e[3] \in Range(failed[a])}
         ELSE e[3].recipient = last'.arg]_vars

\* C37: after a retry, every message of a retried backlog that is not
\* expired is in the queue or back in that backlog
C37_RetryKeepsMessages ==
  [][last'.op = "retry" =>
       \A a \in DOMAIN failed :
         (last'.arg \in {"None", a}) =>
            \A m \in Range(failed[a]) :
              (m.ttl = <<>> \/ now - m.ts <= m.ttl[1]) =>
                 \/ \E e \in Entries(queue') : e[3] = m
                 \/ a \in DOMAIN failed' /\ m \in Range(failed'[a])]_vars

\* C38: messages_delivered never exceeds messages_sent, and the success_rate
\* of get_statistics lies between 0 and 100
C38_SuccessRateBounded ==
  /\ metrics.messages_delivered <= metrics.messages_sent
  /\ LET r == get_statistics.success_rate
     IN r.den > 0 /\ 0 <= r.num /\ r.num <= 100 * r.den

\* the position of the first filter that returns False for a message of
\* this priority, and one past the last filter when there is none
FirstRejection(priority) ==
  LET rejecting == {i \in 1..Len(filters) : filters[i] = "drop_low" /\ priority < 2}
  IN IF rejecting = {} THEN Len(filters) + 1
     ELSE CHOOSE i \in rejecting : \A j \in rejecting : i <= j

\* C39: a filter that raises does not end the consultation: the filters
\* called are those up to the first that returns False, raising ones
\* included, all of them when none returns False; the message, not expired
\* and with room in the queue, is enqueued exactly when no filter returns
\* False
C39_RaisingFilterAccepts ==
  [][\A m \in RaiseMsgs :
       Send(m.sender, m.recipient, m.priority, m.ttl, m.ts) =>
         LET n == FirstRejection(m.priority)
         IN /\ last'.op = "send"
            /\ last'.called = SubSeq(filters, 1, IF n > Len(filters) THEN Len(filters) ELSE n)
            /\ last'.ret = (n > Len(filters))
            /\ size' = IF n > Len(filters) THEN size + 1 ELSE size
            /\ n > Len(filters) => \E e \in Entries(queue') : e[3].id = produced + 1]_vars

\* C39 witness: with a raising filter registered before one that rejects
\* low priorities, a send consulted both and was accepted; an earlier send
\* was rejected
C39_Witness ==
  /\ filters = <<"raises", "drop_low">>
  /\ last.op = "send"
  /\ last.ret
  /\ last.called = filters
  /\ size = 1
  /\ produced = 2

\* the loop tasks in ts that have not been cancelled
Active(ts) == {i \in 1..Len(ts) : ts[i] = "alive"}

\* C40: at most one processing task and one sweep task are not cancelled,
\* the ones start() created last; start() on a running bus leaves the tasks
\* as they are; the task of an earlier run only goes from cancelled to
\* ended; and a step that takes a message from the queue or sweeps is one of
\* the current run's task on a running bus
C40_OneLoopEach ==
  /\ [](/\ Active(processing) \subseteq {Len(processing)}
        /\ Active(cleanup) \subseteq {Len(cleanup)})
  /\ [][(last'.op = "start" /\ last'.was) =>
          (processing' = processing /\ cleanup' = cleanup)]_vars
  /\ [][/\ \A i \in 1..(Len(processing) - 1) :
             processing'[i] # processing[i] =>
               (processing[i] = "cancelling" /\ processing'[i] = "done")
        /\ \A i \in 1..(Len(cleanup) - 1) :
             cleanup'[i] # cleanup[i] =>
               (cleanup[i] = "cancelling" /\ cleanup'[i] = "done")]_vars
  /\ [][/\ size' < size /\ last'.op \notin {"sweep", "sweep_error"} =>
             (running /\ Active(processing) = {Len(processing)})
        /\ last'.op \in {"sweep", "sweep_error"} =>
             (running /\ Active(cleanup) = {Len(cleanup)})]_vars

\* C40 witness: the bus was started, stopped and started again; the loops
\* of the first run have ended and the second run's loop is routing a
\* message
C40_Witness ==
  /\ running
  /\ processing = <<"done", "alive">>
  /\ cleanup = <<"done", "alive">>
  /\ cur # NoMsg
  /\ metrics.messages_delivered + metrics.messages_failed >= 1

====
